---------------------------- MODULE Spec2Model ----------------------------
(***************************************************************************)
(* A model of the SyncSphere chat backend's connection / presence /        *)
(* protocol layer: ChatGateway (src/src/chat/chat.gateway.ts, the latest   *)
(* revision, lines 635-1476), PresenceService                              *)
(* (src/src/chat/presence/presence.service.ts), the message schemas        *)
(* (src/src/chat/chat.message.dto.ts) and the group-members cache          *)
(* (src/src/group/group.service.ts).                                       *)
(*                                                                         *)
(* Strings that the code takes apart (user ids, conversation ids, message  *)
(* ids) are sequences of UTF-16 code units; values the code only stores    *)
(* and compares (content, message text, metadata) are opaque TLA+ strings, *)
(* with "absent" for a missing key and "null" for a stored NULL.           *)
(***************************************************************************)
EXTENDS Integers, Sequences, FiniteSets, TLC

(***************************************************************************)
(* Bounds of the model.                                                    *)
(***************************************************************************)
\* The clock (new Date()) runs from 1 to MaxClock.
MaxClock == 2

(***************************************************************************)
(* Program constants.                                                      *)
(***************************************************************************)
\* '_' , the delimiter of a DM conversation id (conversationId.split('_')).
Underscore == 95
\* new Date(0): the lastReadAt of a freshly created participant row.
Epoch == 0

(***************************************************************************)
(* Strings.                                                                *)
(***************************************************************************)
amy == <<97, 109, 121>>
bob == <<98, 111, 98>>
\* zed appears in conversation ids but has no row in the user table.
zed == <<122, 101, 100>>
cat == <<99, 97, 116>>
\* The users with a row in the user table.
Users == {amy, bob, cat}

\* [a, b].join('_')
Join(a, b) == a \o <<Underscore>> \o b

\* a < b on JavaScript strings: lexicographic on code units, a proper
\* prefix being smaller.
RECURSIVE StrLess(_, _)
StrLess(a, b) ==
  IF Len(b) = 0 THEN FALSE
  ELSE IF Len(a) = 0 THEN TRUE
  ELSE IF Head(a) < Head(b) THEN TRUE
  ELSE IF Head(a) > Head(b) THEN FALSE
  ELSE StrLess(Tail(a), Tail(b))

\* s.split('_'): the pieces between the underscores, empty pieces kept.
RECURSIVE SplitFrom(_, _)
SplitFrom(s, cur) ==
  IF Len(s) = 0 THEN <<cur>>
  ELSE IF Head(s) = Underscore THEN <<cur>> \o SplitFrom(Tail(s), <<>>)
  ELSE SplitFrom(Tail(s), Append(cur, Head(s)))

Split(s) == SplitFrom(s, <<>>)

\* A recogniser that does not compare the two components.
isDMConversationIdUnordered(conversationId) ==
  /\ Len(Split(conversationId)) = 2
  /\ Len(Split(conversationId)[1]) > 0 /\ Len(Split(conversationId)[2]) > 0

\* ChatGateway.isDMConversationId
isDMConversationId(conversationId) ==
  LET parts == Split(conversationId) IN
  IF Len(parts) # 2 THEN FALSE
  ELSE Len(parts[1]) > 0 /\ Len(parts[2]) > 0 /\ StrLess(parts[1], parts[2])

\* dmUserIds.includes(senderId)
Includes(parts, x) == \E i \in 1..Len(parts) : parts[i] = x

\* An id builder that joins the two ids in the order given.
getDMConversationIdUnsorted(userId1, userId2) == Join(userId1, userId2)

\* [userId1, userId2].sort(): ascending by code units.
sortPair(a, b) == IF StrLess(b, a) THEN <<b, a>> ELSE <<a, b>>

\* The client's getDMConversationId of the design note:
\* [userId1, userId2].sort().join('_')
getDMConversationId(userId1, userId2) ==
  Join(sortPair(userId1, userId2)[1], sortPair(userId1, userId2)[2])

(***************************************************************************)
(* Identifiers of the model's world.                                       *)
(***************************************************************************)
\* The one group: its id and the (different) id of its conversation; both
\* are uuids (v7()) and hold no underscore.
grp == <<103, 49>>
gconv == <<99, 49>>
\* The ids v7() gives a group created during a run and its conversation.
grp2 == <<103, 50>>
gconv2 == <<99, 50>>
\* A conversation id that names nothing.
ghost == <<120>>
dmAmyBob == Join(amy, bob)
dmAmyZed == Join(amy, zed)
\* The two ids of amy and bob joined in descending order.
dmBobAmy == Join(bob, amy)

\* Client-supplied message ids.
m1 == <<109, 49>>
m2 == <<109, 50>>

(***************************************************************************)
(* Message schemas (chat.message.dto.ts).  A payload is a record of the    *)
(* keys the schemas look at; timestamp (z.coerce.date()) is a number of    *)
(* clock units, and replyToId, which both schemas treat alike, is left     *)
(* out.                                                                    *)
(***************************************************************************)
MessageActions == {"INSERT", "UPDATE", "DELETE"}

\* ContentSchema: the content values that are well-formed content objects.
ValidContent == {"text1", "text2"}

\* z.string().min(1)
NonEmpty(s) == Len(s) >= 1

\* DeleteMessageSchema
DeleteMessageSchema(p) ==
  /\ NonEmpty(p.id) /\ NonEmpty(p.conversationId) /\ NonEmpty(p.senderId)
  /\ p.action = "DELETE"

\* BaseMessageSchema
BaseMessageSchema(p) ==
  /\ NonEmpty(p.id) /\ NonEmpty(p.conversationId) /\ NonEmpty(p.senderId)
  /\ p.contentType # "absent"
  /\ p.content \in ValidContent
  /\ p.action \in MessageActions \cup {"absent"}

\* IncomingMessageSchema.safeParse: the union tries DeleteMessageSchema
\* first; BaseMessageSchema fills in the default action.
IncomingMessageSchema(p) ==
  IF DeleteMessageSchema(p) THEN [success |-> TRUE, data |-> p]
  ELSE IF BaseMessageSchema(p)
    THEN [success |-> TRUE,
          data |-> [p EXCEPT !.action = IF @ = "absent" THEN "INSERT" ELSE @]]
  ELSE [success |-> FALSE, data |-> p]

\* CreateMessageSchema.safeParse(parsedMesage.data).success: contentType is
\* required, content and message are nullable but not optional.
CreateMessageSchema(d) ==
  /\ NonEmpty(d.id) /\ NonEmpty(d.conversationId) /\ NonEmpty(d.senderId)
  /\ d.contentType # "absent"
  /\ d.content \in ValidContent \cup {"null"}
  /\ d.message # "absent"
  /\ d.action \in MessageActions

\* TypingEventSchema / MarkAsReadEventSchema
ConversationEventSchema(p) == NonEmpty(p.conversationId)

(***************************************************************************)
(* Error strings of the err event.                                         *)
(***************************************************************************)
ErrParse == "Failed to parse message payload"
ErrSender == "Please user the senderID of the logged in User"
ErrInvalidDM == "Invalid DM conversation: sender is not a participant"
ErrUsers == "One or both users do not exist"
ErrConvNotFound == "Conversation not found"
ErrNotGroupMember == "User is not a member of the group"
ErrTypingPayload == "Invalid typing event payload"
ErrReadPayload == "Invalid mark_as_read event payload"
ErrNotConvMember == "User is not a member of this conversation"
\* GroupService: BadRequestException('Group not found')
ErrGroupNotFound == "Group not found"

(***************************************************************************)
(* State.                                                                  *)
(***************************************************************************)
VARIABLES
  clock,      \* the wall clock read by new Date()
  convs,      \* conversation table: id -> [isGroup, parts: userId -> lastReadAt]
  messages,   \* message table: id -> row
  groups,     \* group table: id -> [conversationId, members: userId -> role]
  cache,      \* cache manager: group id -> cached member ids
  req,        \* the protocol requests in flight, one per slot
  presence,   \* Redis: user id -> set of socket ids (key presence:<user>)
  sock,       \* per socket: transport state and handler positions
  emitted,    \* user_status_change events sent so far
  fnArg,      \* the strings a client holds: two user ids, a conversation id
  fnOut       \* what the id functions made of them

vars == <<clock, convs, messages, groups, cache, req, presence, sock, emitted,
          fnArg, fnOut>>

msgVars == <<clock, convs, messages, groups, cache, req>>
presVars == <<presence, sock, emitted>>
fnVars == <<fnArg, fnOut>>


(***************************************************************************)
(* Bounded inputs of the message protocol.                                 *)
(***************************************************************************)
\* Request slots that may be in flight together (SpecRace).
NSlots == 2
Slots == 1..NSlots
\* Spec handles one request at a time; its handlers are still split at
\* their awaits.
SeqSlots == {1}

\* The content-carrying keys of an envelope.
FullBody1 == [contentType |-> "TEXT", content |-> "text1", message |-> "hi",
              metadata |-> "absent", timestamp |-> 1]
FullBody2 == [contentType |-> "TEXT", content |-> "text2", message |-> "yo",
              metadata |-> "edited", timestamp |-> 1]
\* No optional `message` key.
NoMessageBody == [contentType |-> "TEXT", content |-> "text1",
                  message |-> "absent", metadata |-> "absent",
                  timestamp |-> 1]
\* Only id, conversationId, senderId, timestamp and action.
BareBody == [contentType |-> "absent", content |-> "absent",
             message |-> "absent", metadata |-> "absent", timestamp |-> 1]
Bodies == {FullBody1, FullBody2, NoMessageBody, BareBody}

Envelope(id, conversationId, senderId, action, body) ==
  [id |-> id, conversationId |-> conversationId, senderId |-> senderId,
   action |-> action, contentType |-> body.contentType,
   content |-> body.content, message |-> body.message,
   metadata |-> body.metadata, timestamp |-> body.timestamp]

\* The payload of typing_start, typing_stop and mark_as_read.
ConversationEvent(conversationId) ==
  Envelope(<<>>, conversationId, <<>>, "absent", BareBody)

SendConvIds == {dmAmyBob, dmAmyZed, gconv, ghost}
\* Spec: every combination of conversation, claimed sender, action and
\* body, under one message id.
SendPayloads ==
  { Envelope(m1, c, s, a, b) :
      c \in SendConvIds, s \in Users, a \in MessageActions, b \in Bodies }

\* SpecSignals: plain INSERTs, enough to create the DM and to be rejected.
SignalSendPayloads ==
  { Envelope(m1, c, s, "INSERT", FullBody1) : c \in SendConvIds, s \in Users }

\* Well-formed envelopes sent under the sender's own identity to the DM of
\* amy and bob: the inputs of the creation race.
RacePayloads ==
  { Envelope(i, dmAmyBob, s, a, FullBody1) :
      i \in {m1, m2}, s \in {amy, bob}, a \in MessageActions }

EventConvIds == {dmAmyBob, gconv, grp, ghost, <<>>}

\* The timestamps a client may put in an envelope: the server's clock values,
\* the epoch, and one value ahead of the server's clock.
Timestamps == 0..(MaxClock + 1)
Stamped(body, t) == [body EXCEPT !.timestamp = t]

\* SpecUnread: messages of the two members of the group conversation under
\* their own identity, with any timestamp.
UnreadPayloads ==
  { Envelope(m1, gconv, s, a, Stamped(FullBody1, t)) :
      s \in {amy, cat}, a \in {"INSERT", "DELETE"}, t \in Timestamps }

\* Users with a registered device token (session.fcmToken not null).
TokenUsers == {bob}

(***************************************************************************)
(* Requests.                                                               *)
(***************************************************************************)
IdleReq ==
  [pc |-> "idle", kind |-> "none", auth |-> <<>>,
   p |-> ConversationEvent(<<>>), flag |-> FALSE,
   snap |-> {}, recips |-> {},
   err |-> "none", event |-> "none", delivered |-> {},
   persisted |-> FALSE, logged |-> "none", push |-> {}, now |-> Epoch]

NewReq(kind, auth, p, flag) ==
  [IdleReq EXCEPT !.pc = "start", !.kind = kind, !.auth = auth, !.p = p,
                  !.flag = flag]

\* parsedMesage.data
Data(q) == IncomingMessageSchema(q.p).data

\* client.emit('err', {message, data: payload}); return
Fail(q, message) == [q EXCEPT !.pc = "done", !.err = message]

\* A catch block that logs and lets the handler run on to the broadcast.
ThrowAndGoOn(q, e) == [q EXCEPT !.pc = "broadcast", !.logged = e]

\* catch (e) { this.logger.error(...) }: every handler's catch block only
\* logs.
Throw(q, e) == [q EXCEPT !.pc = "done", !.logged = e]

Participants(c) == DOMAIN c.parts
(***************************************************************************)
(* The message table (handleMessageAction's three Prisma calls).           *)
(***************************************************************************)
\* dbMessage.content ? dbMessage.content : Prisma.JsonNull
JsonOrNull(v) == IF v \in {"absent", "null"} THEN "null" ELSE v

\* prismaData = {...dbMessage, content, metadata}
prismaData(d) ==
  [timestamp |-> d.timestamp,
   contentType |-> d.contentType, content |-> JsonOrNull(d.content),
   metadata |-> JsonOrNull(d.metadata), message |-> d.message,
   action |-> d.action, senderId |-> d.senderId,
   conversationId |-> d.conversationId, deletedAt |-> <<>>]

\* An upsert whose update branch writes the envelope over the stored row.
messageUpsertOverwrite(msgs, d) == (d.id :> prismaData(d)) @@ msgs

\* prisma.message.upsert({where: {id}, create: prismaData, update: {}})
messageUpsert(msgs, d) ==
  IF d.id \in DOMAIN msgs THEN msgs ELSE (d.id :> prismaData(d)) @@ msgs

\* prisma.message.update({where: {id}, data: {content, metadata, message,
\* action: UPDATE}}); the row must exist.
messageUpdate(msgs, d) ==
  [msgs EXCEPT ![d.id] =
     [@ EXCEPT !.content = JsonOrNull(d.content),
               !.metadata = JsonOrNull(d.metadata),
               !.message = d.message,
               !.action = "UPDATE"]]

\* A delete that also blanks the stored content.
messageDeleteErasing(msgs, d, now) ==
  [msgs EXCEPT ![d.id] =
     [@ EXCEPT !.deletedAt = <<now>>, !.action = "DELETE", !.content = "null",
               !.message = "null"]]

\* prisma.message.update({where: {id}, data: {deletedAt: new Date(),
\* action: DELETE}}); the row must exist.
messageSoftDelete(msgs, d, now) ==
  [msgs EXCEPT ![d.id] = [@ EXCEPT !.deletedAt = <<now>>, !.action = "DELETE"]]

\* The record-not-found error (P2025) of prisma.message.update.
messageMissing(msgs, d) == d.action # "INSERT" /\ d.id \notin DOMAIN msgs

\* handleMessageAction: the table after the call for action d.action.
handleMessageAction(msgs, d, now) ==
  IF d.action = "INSERT" THEN messageUpsert(msgs, d)
  ELSE IF d.action = "UPDATE" THEN messageUpdate(msgs, d)
  ELSE messageSoftDelete(msgs, d, now)

\* getRecipientTokens: the device tokens of the given users.
getRecipientTokens(recipientIds) == recipientIds \cap TokenUsers

(***************************************************************************)
(* send_message (ChatGateway.handleMessage), split at its awaits.          *)
(***************************************************************************)
\* The second validation without the membership check before it.
checkMembershipAnyone(q, participants) ==
  IF ~CreateMessageSchema(Data(q)) THEN Fail(q, ErrParse)
  ELSE [q EXCEPT !.pc = "persist", !.snap = participants]

\* Lines 849-887: the conversation is known; membership, then the second
\* validation.
checkMembership(q, participants) ==
  IF Data(q).senderId \notin participants THEN Fail(q, ErrNotGroupMember)
  ELSE IF ~CreateMessageSchema(Data(q)) THEN Fail(q, ErrParse)
  ELSE [q EXCEPT !.pc = "persist", !.snap = participants]

\* The validation without the comparison of senderId with the session.
validateEnvelopeAnySender(q) ==
  IF ~IncomingMessageSchema(q.p).success THEN Fail(q, ErrParse)
  ELSE IF /\ isDMConversationId(Data(q).conversationId)
          /\ ~Includes(Split(Data(q).conversationId), Data(q).senderId)
    THEN Fail(q, ErrInvalidDM)
  ELSE [q EXCEPT !.pc = "find"]

\* Lines 753-800: validation of the envelope, the sender and the DM id.
validateEnvelope(q) ==
  IF ~IncomingMessageSchema(q.p).success THEN Fail(q, ErrParse)
  ELSE IF q.auth # Data(q).senderId THEN Fail(q, ErrSender)
  ELSE IF /\ isDMConversationId(Data(q).conversationId)
          /\ ~Includes(Split(Data(q).conversationId), Data(q).senderId)
    THEN Fail(q, ErrInvalidDM)
  ELSE [q EXCEPT !.pc = "find"]

\* A user count that finds both users whoever they are.
usersExistAssumed(conversationId) == 2

\* prisma.user.count({where: {id: {in: [userId1, userId2]}}})
usersExist(conversationId) ==
  Cardinality({Split(conversationId)[1], Split(conversationId)[2]} \cap Users)

\* Lines 803-857: conversation.findUnique, and for a missing DM the user
\* count.
findConversation(q, table) ==
  LET cid == Data(q).conversationId IN
  IF cid \in DOMAIN table THEN checkMembership(q, Participants(table[cid]))
  ELSE IF isDMConversationId(cid)
    THEN IF usersExist(cid) # 2 THEN Fail(q, ErrUsers)
         ELSE [q EXCEPT !.pc = "create"]
  ELSE Fail(q, ErrConvNotFound)

\* The handler up to its first write: validation, lookup, checks.
handleMessageStart(q, table) ==
  IF validateEnvelope(q).pc = "done" THEN validateEnvelope(q)
  ELSE findConversation(q, table)

\* The DM conversation row with its two participant rows.
newDM(conversationId) ==
  [isGroup |-> FALSE,
   parts |-> (Split(conversationId)[1] :> Epoch) @@
             (Split(conversationId)[2] :> Epoch)]

SendReceive(r, auth, p) ==
  /\ req[r].pc = "idle"
  /\ req' = [req EXCEPT ![r] = handleMessageStart(NewReq("send", auth, p, FALSE), convs)]
  /\ UNCHANGED <<clock, convs, messages, groups, cache>>
  /\ UNCHANGED <<presVars, fnVars>>

\* Lines 830-844: prisma.conversation.create; the id is the primary key, so
\* a second create of the same id is a unique-constraint error (P2002).
SendCreate(r) ==
  /\ req[r].pc = "create"
  /\ LET cid == Data(req[r]).conversationId IN
     IF cid \in DOMAIN convs
       THEN /\ req' = [req EXCEPT ![r] = Throw(@, "P2002")]
            /\ UNCHANGED convs
       ELSE /\ convs' = (cid :> newDM(cid)) @@ convs
            /\ req' = [req EXCEPT ![r] = checkMembership(@, Participants(newDM(cid)))]
  /\ UNCHANGED <<clock, messages, groups, cache>>
  /\ UNCHANGED <<presVars, fnVars>>

\* The recipients of the silent notification of a DELETE: the participants
\* of the deleted row's conversation, without the row's sender.
deleteRecipients(msgs, table, id) ==
  IF msgs[id].conversationId \in DOMAIN table
    THEN Participants(table[msgs[id].conversationId]) \ {msgs[id].senderId}
    ELSE {}

\* The request after handleMessageAction's database call succeeded.
afterPersist(q, msgs, table) ==
  IF Data(q).action = "DELETE"
    THEN [q EXCEPT !.pc = "delnotify", !.persisted = TRUE,
                   !.recips = deleteRecipients(msgs, table, Data(q).id)]
    ELSE [q EXCEPT !.pc = "broadcast", !.persisted = TRUE]

\* Lines 889-893 and 1131-1163: the database call of handleMessageAction.
\* dbOk = FALSE is a failure of the store itself.
SendPersist(r, dbOk) ==
  /\ req[r].pc = "persist"
  /\ IF ~dbOk
       THEN /\ req' = [req EXCEPT ![r] = Throw(@, "db")]
            /\ UNCHANGED messages
     ELSE IF messageMissing(messages, Data(req[r]))
       THEN /\ req' = [req EXCEPT ![r] = Throw(@, "P2025")]
            /\ UNCHANGED messages
     ELSE /\ messages' = handleMessageAction(messages, Data(req[r]), clock)
          /\ req' = [req EXCEPT ![r] = afterPersist(@, messages', convs)]
  /\ UNCHANGED <<clock, convs, groups, cache>>
  /\ UNCHANGED <<presVars, fnVars>>
\* The push sent to `tokens`, if there are any (both senders return early
\* on an empty token list).
pushTo(type, silent, tokens) ==
  IF tokens = {} THEN {}
  ELSE {[type |-> type, silent |-> silent, tokens |-> tokens]}

\* Lines 1165-1170 and 1256-1275: sendDeletedMessageNotification, awaited
\* inside handleMessageAction.  The token query runs only for a non-empty
\* recipient list; dbOk = FALSE is that query failing.
SendDeleteNotify(r, dbOk) ==
  /\ req[r].pc = "delnotify"
  /\ IF req[r].recips # {} /\ ~dbOk
       THEN req' = [req EXCEPT ![r] = Throw(@, "db")]
       ELSE req' = [req EXCEPT ![r] =
              [@ EXCEPT !.pc = "broadcast",
                        !.push = @ \cup pushTo("MESSAGE_DELETED", TRUE,
                                        getRecipientTokens(req[r].recips))]]
  /\ UNCHANGED <<clock, convs, messages, groups, cache>>
  /\ UNCHANGED <<presVars, fnVars>>

\* Lines 895-900: emit `message` to the room of every participant of the
\* conversation read at the start; then sendNewMessageNotification picks
\* its recipients (lines 1232-1234).
broadcastMessage(q) ==
  [q EXCEPT !.pc = "notify", !.event = "message", !.delivered = q.snap,
            !.recips = q.snap \ {q.auth}]

SendBroadcast(r) ==
  /\ req[r].pc = "broadcast"
  /\ req' = [req EXCEPT ![r] = broadcastMessage(@)]
  /\ UNCHANGED <<clock, convs, messages, groups, cache>>
  /\ UNCHANGED <<presVars, fnVars>>

\* Lines 902-907 and 1225-1254: sendNewMessageNotification, called for
\* every action.
SendNotify(r, dbOk) ==
  /\ req[r].pc = "notify"
  /\ IF req[r].recips # {} /\ ~dbOk
       THEN req' = [req EXCEPT ![r] = Throw(@, "db")]
       ELSE req' = [req EXCEPT ![r] =
              [@ EXCEPT !.pc = "done",
                        !.push = @ \cup pushTo("NEW_MESSAGE", FALSE,
                                        getRecipientTokens(req[r].recips))]]
  /\ UNCHANGED <<clock, convs, messages, groups, cache>>
  /\ UNCHANGED <<presVars, fnVars>>

(***************************************************************************)
(* typing_start / typing_stop (ChatGateway.handleTypingEvent).             *)
(***************************************************************************)
\* A typing handler that emits to every participant's room, the sender's
\* included.
handleTypingEventToAll(q, table) ==
  IF ~ConversationEventSchema(q.p) THEN Fail(q, ErrTypingPayload)
  ELSE IF q.p.conversationId \notin DOMAIN table THEN Fail(q, ErrConvNotFound)
  ELSE IF q.auth \notin Participants(table[q.p.conversationId])
    THEN Fail(q, ErrNotConvMember)
  ELSE [q EXCEPT !.pc = "done", !.event = "user_typing",
                 !.snap = Participants(table[q.p.conversationId]),
                 !.delivered = Participants(table[q.p.conversationId])]

\* Lines 944-1006: schema, conversation lookup, membership check, then
\* user_typing to the room of every participant but the sender.
handleTypingEvent(q, table) ==
  LET cid == q.p.conversationId IN
  IF ~ConversationEventSchema(q.p) THEN Fail(q, ErrTypingPayload)
  ELSE IF cid \notin DOMAIN table THEN Fail(q, ErrConvNotFound)
  ELSE IF q.auth \notin Participants(table[cid]) THEN Fail(q, ErrNotConvMember)
  ELSE [q EXCEPT !.pc = "done", !.event = "user_typing",
                 !.snap = Participants(table[cid]),
                 !.delivered = Participants(table[cid]) \ {q.auth}]

\* A typing handler that keeps the signal as a row of the conversation.
TypingStored(r, auth, conversationId, isTyping) ==
  /\ req[r].pc = "idle"
  /\ req' = [req EXCEPT ![r] =
       handleTypingEvent(
         NewReq("typing", auth, ConversationEvent(conversationId), isTyping),
         convs)]
  /\ messages' = IF req'[r].event = "user_typing"
                   THEN (m2 :> [conversationId |-> conversationId, senderId |-> auth])
                        @@ messages
                   ELSE messages
  /\ UNCHANGED <<clock, convs, groups, cache>>
  /\ UNCHANGED <<presVars, fnVars>>

Typing(r, auth, conversationId, isTyping) ==
  /\ req[r].pc = "idle"
  /\ req' = [req EXCEPT ![r] =
       handleTypingEvent(
         NewReq("typing", auth, ConversationEvent(conversationId), isTyping),
         convs)]
  /\ UNCHANGED <<clock, convs, messages, groups, cache>>
  /\ UNCHANGED <<presVars, fnVars>>

(***************************************************************************)
(* mark_as_read (ChatGateway.handleMarkAsRead).                            *)
(***************************************************************************)
\* A membership check that answers a non-member as if the conversation did
\* not exist.
checkReaderOpaque(q, participants, now) ==
  IF q.auth \notin participants THEN Fail(q, ErrConvNotFound)
  ELSE [q EXCEPT !.pc = "write", !.snap = participants, !.now = now]

\* A handler that goes on to the write without the membership check.
checkReaderAnyone(q, participants, now) ==
  [q EXCEPT !.pc = "write", !.snap = participants, !.now = now]

\* Lines 1062-1076: the membership check on the participant list in hand,
\* then now = new Date().
checkReader(q, participants, now) ==
  IF q.auth \notin participants THEN Fail(q, ErrNotConvMember)
  ELSE [q EXCEPT !.pc = "write", !.snap = participants, !.now = now]

\* Lines 1020-1060: when the cache holds an entry under
\* group:<conversationId>:members, the handler calls cachedMembers.map on
\* it; the call works on an array and is a TypeError on any other value.
\* Without an entry the participant list comes from the conversation row.
handleMarkAsReadStart(q, cached, table, now) ==
  LET cid == q.p.conversationId IN
  IF ~ConversationEventSchema(q.p) THEN Fail(q, ErrReadPayload)
  ELSE IF cid \in DOMAIN cached
    THEN IF cached[cid].shape = "array"
           THEN checkReader(q, cached[cid].members, now)
           ELSE Throw(q, "TypeError")
  ELSE IF cid \notin DOMAIN table THEN Fail(q, ErrConvNotFound)
  ELSE checkReader(q, Participants(table[cid]), now)

MarkReadReceive(r, auth, conversationId) ==
  /\ req[r].pc = "idle"
  /\ req' = [req EXCEPT ![r] =
       handleMarkAsReadStart(
         NewReq("read", auth, ConversationEvent(conversationId), FALSE),
         cache, convs, clock)]
  /\ UNCHANGED <<clock, convs, messages, groups, cache>>
  /\ UNCHANGED <<presVars, fnVars>>

\* participant.update({where: {userId_conversationId}}) finds no row.
participantMissing(table, conversationId, userId) ==
  \/ conversationId \notin DOMAIN table
  \/ userId \notin Participants(table[conversationId])

\* A read receipt emitted to every participant's room, the reader's
\* included.
broadcastReadToAll(q) ==
  [q EXCEPT !.pc = "done", !.event = "conversation_read", !.persisted = TRUE,
            !.delivered = q.snap]

\* Lines 1091-1100: conversation_read to every other participant.
broadcastRead(q) ==
  [q EXCEPT !.pc = "done", !.event = "conversation_read", !.persisted = TRUE,
            !.delivered = q.snap \ {q.auth}]

\* Lines 1077-1100: the targeted lastReadAt write, then the broadcast.
MarkReadWrite(r, dbOk) ==
  /\ req[r].kind = "read" /\ req[r].pc = "write"
  /\ LET cid == req[r].p.conversationId IN
     IF ~dbOk
       THEN /\ req' = [req EXCEPT ![r] = Throw(@, "db")]
            /\ UNCHANGED convs
     ELSE IF participantMissing(convs, cid, req[r].auth)
       THEN /\ req' = [req EXCEPT ![r] = Throw(@, "P2025")]
            /\ UNCHANGED convs
     ELSE /\ convs' = [convs EXCEPT ![cid].parts[req[r].auth] = req[r].now]
          /\ req' = [req EXCEPT ![r] = broadcastRead(@)]
  /\ UNCHANGED <<clock, messages, groups, cache>>
  /\ UNCHANGED <<presVars, fnVars>>

\* ConversationService.markAsRead (REST), lines 72-102 of part_022:
\* participant.findUnique by (userId, conversationId); without a row
\* NotFoundException('Conversation not found'); otherwise now = new Date()
\* is taken for the update that follows.
markAsReadFind(q, table, now) ==
  IF participantMissing(table, q.p.conversationId, q.auth)
    THEN Fail(q, ErrConvNotFound)
    ELSE [q EXCEPT !.pc = "write", !.now = now]

RestMarkAsRead(r, auth, conversationId) ==
  /\ req[r].pc = "idle"
  /\ req' = [req EXCEPT ![r] =
       markAsReadFind(NewReq("rest.read", auth,
                             ConversationEvent(conversationId), FALSE),
                      convs, clock)]
  /\ UNCHANGED <<clock, convs, messages, groups, cache>>
  /\ UNCHANGED <<presVars, fnVars>>

\* Lines 98-110: participant.update({where: {id}, data: {lastReadAt: now}})
\* and the response {success, lastReadAt: now}; nothing is emitted.
RestMarkAsReadWrite(r) ==
  /\ req[r].kind = "rest.read" /\ req[r].pc = "write"
  /\ LET cid == req[r].p.conversationId IN
     IF participantMissing(convs, cid, req[r].auth)
       THEN /\ req' = [req EXCEPT ![r] = Throw(@, "P2025")]
            /\ UNCHANGED convs
       ELSE /\ convs' = [convs EXCEPT ![cid].parts[req[r].auth] = req[r].now]
            /\ req' = [req EXCEPT ![r] =
                 [@ EXCEPT !.pc = "done", !.event = "response",
                           !.persisted = TRUE]]
  /\ UNCHANGED <<clock, messages, groups, cache>>
  /\ UNCHANGED <<presVars, fnVars>>

(***************************************************************************)
(* The unread count of the conversation list                               *)
(* (ConversationService._enrichConversations).                             *)
(***************************************************************************)
\* currentUserParticipant?.lastReadAt || new Date(0)
lastReadAtOf(table, conversationId, userId) ==
  IF conversationId \in DOMAIN table /\ userId \in Participants(table[conversationId])
    THEN table[conversationId].parts[userId]
    ELSE Epoch

\* The rows prisma.message.count counts: of the conversation, with
\* timestamp > lastReadAt, not sent by the user, not deleted.
unreadMessages(table, msgs, conversationId, userId) ==
  { i \in DOMAIN msgs :
      /\ msgs[i].conversationId = conversationId
      /\ msgs[i].timestamp > lastReadAtOf(table, conversationId, userId)
      /\ msgs[i].senderId # userId
      /\ msgs[i].deletedAt = <<>> }

unreadCount(table, msgs, conversationId, userId) ==
  Cardinality(unreadMessages(table, msgs, conversationId, userId))

(***************************************************************************)
(* The group-members cache (GroupService.getGroupMembers).                 *)
(***************************************************************************)
\* The value getGroupMembers caches: the response object {members: [...]}.
GetGroupMembersResponse(members) == [shape |-> "object", members |-> members]

\* Lines 181-258 of group.service.ts: on a cache miss a member's request
\* stores the response under group:<groupId>:members.
GetGroupMembers(userId, groupId) ==
  /\ groupId \notin DOMAIN cache
  /\ groupId \in DOMAIN groups
  /\ userId \in DOMAIN groups[groupId].members
  /\ cache' = (groupId :> GetGroupMembersResponse(DOMAIN groups[groupId].members)) @@ cache
  /\ UNCHANGED <<clock, convs, messages, groups, req>>
  /\ UNCHANGED <<presVars, fnVars>>

\* getGroupMembers as the caller sees it, lines 181-258: a cache entry is
\* returned as it is; otherwise the group is read, a missing group and a
\* caller who is not a member get BadRequestException('Group not found'),
\* and a member gets the list (snap), which is stored in the cache.
getGroupMembers(q, cached, table) ==
  LET groupId == q.p.conversationId IN
  IF groupId \in DOMAIN cached
    THEN [q EXCEPT !.pc = "done", !.event = "response",
                   !.snap = cached[groupId].members]
  ELSE IF groupId \notin DOMAIN table THEN Fail(q, ErrGroupNotFound)
  ELSE IF q.auth \notin DOMAIN table[groupId].members THEN Fail(q, ErrGroupNotFound)
  ELSE [q EXCEPT !.pc = "done", !.event = "response", !.persisted = TRUE,
                 !.snap = DOMAIN table[groupId].members]

GetGroupMembersCall(r, userId, groupId) ==
  /\ req[r].pc = "idle"
  /\ req' = [req EXCEPT ![r] =
       getGroupMembers(NewReq("getGroupMembers", userId,
                              ConversationEvent(groupId), FALSE),
                       cache, groups)]
  /\ cache' = IF req'[r].persisted
                THEN (groupId :> GetGroupMembersResponse(req'[r].snap)) @@ cache
                ELSE cache
  /\ UNCHANGED <<clock, convs, messages, groups>>
  /\ UNCHANGED <<presVars, fnVars>>

\* getGroupMembers split at its awaits.  Lines 190-195: cacheManager.get; an
\* entry is returned as it is.
MembersCacheGet(r, userId, groupId) ==
  /\ req[r].pc = "idle"
  /\ LET q == NewReq("getGroupMembers", userId, ConversationEvent(groupId), FALSE)
     IN req' = [req EXCEPT ![r] =
          IF groupId \in DOMAIN cache
            THEN [q EXCEPT !.pc = "done", !.event = "response",
                           !.snap = cache[groupId].members]
            ELSE [q EXCEPT !.pc = "find"]]
  /\ UNCHANGED <<clock, convs, messages, groups, cache>>
  /\ UNCHANGED <<presVars, fnVars>>

\* Lines 198-230: prisma.group.findUnique with the members, and the two
\* checks; the list read here (snap) is the one the response is built from.
MembersFind(r) ==
  /\ req[r].kind = "getGroupMembers" /\ req[r].pc = "find"
  /\ LET groupId == req[r].p.conversationId IN
     req' = [req EXCEPT ![r] =
       IF groupId \notin DOMAIN groups THEN Fail(@, ErrGroupNotFound)
       ELSE IF req[r].auth \notin DOMAIN groups[groupId].members
         THEN Fail(@, ErrGroupNotFound)
       ELSE [@ EXCEPT !.pc = "set", !.snap = DOMAIN groups[groupId].members]]
  /\ UNCHANGED <<clock, convs, messages, groups, cache>>
  /\ UNCHANGED <<presVars, fnVars>>

\* Lines 232-252: cacheManager.set(cacheKey, response, TTL) and the return.
MembersCacheSet(r) ==
  /\ req[r].kind = "getGroupMembers" /\ req[r].pc = "set"
  /\ cache' = (req[r].p.conversationId :> GetGroupMembersResponse(req[r].snap))
                 @@ [g \in DOMAIN cache \ {req[r].p.conversationId} |-> cache[g]]
  /\ req' = [req EXCEPT ![r] =
       [@ EXCEPT !.pc = "done", !.event = "response", !.persisted = TRUE]]
  /\ UNCHANGED <<clock, convs, messages, groups>>
  /\ UNCHANGED <<presVars, fnVars>>

\* The entry's TTL (GROUP_MEMBERS_CACHE_TTL_MS) runs out.
CacheExpire(groupId) ==
  /\ groupId \in DOMAIN cache
  /\ cache' = [g \in DOMAIN cache \ {groupId} |-> cache[g]]
  /\ UNCHANGED <<clock, convs, messages, groups, req>>
  /\ UNCHANGED <<presVars, fnVars>>

\* Time passes.
Tick ==
  /\ clock < MaxClock
  /\ clock' = clock + 1
  /\ UNCHANGED <<convs, messages, groups, cache, req>>
  /\ UNCHANGED <<presVars, fnVars>>

(***************************************************************************)
(* Groups (GroupService) and the gateway's handlers of their events.  The  *)
(* service emits each event without awaiting it (void emitAsync); the      *)
(* handler invocation occupies a request slot.                             *)
(***************************************************************************)
\* The ids v7() gives to system messages.
sys1 == <<115, 49>>
sys2 == <<115, 50>>
SystemIds == {sys1, sys2}

\* v7() has an id left for the system message of one more group event,
\* next to the requests under way (the model holds a bounded number of
\* ids).
SystemIdFree ==
  Cardinality(SystemIds \ DOMAIN messages)
    > Cardinality({r \in Slots : req[r].pc \notin {"idle", "done"}})

\* new GroupCreatedEvent(groupId, conversationId, creatorId, name) and
\* new UserJoinedGroupEvent(groupId, conversationId, userId, addedByUserId)
GroupEvent(kind, conversationId, userId, byUserId) ==
  NewReq(kind, byUserId, Envelope(<<>>, conversationId, userId, "absent", BareBody),
         FALSE)

\* new GroupDeletedEvent(groupId, currentUserId): the event names the group
\* and the admin; no member list is passed (snap is the payload's list).
GroupDeletedEvent(groupId, userId) ==
  [NewReq("group.deleted", userId, ConversationEvent(groupId), FALSE)
     EXCEPT !.snap = {}]

\* Participant rows stamped with the time of their creation.
newParticipantsNow(userIds) == [u \in userIds |-> clock]

\* allMemberIds.map(userId => ({userId, conversationId, lastReadAt: new
\* Date(0)})) and the same in addMembers.
newParticipants(userIds) == [u \in userIds |-> Epoch]

\* GroupService.createGroup, lines 265-356: one transaction creates the
\* group, the creator's ADMIN membership, the initial members, the
\* conversation and a participant row per member; then group.created is
\* emitted.
CreateGroup(r, creatorId, initialMembers) ==
  /\ req[r].pc = "idle" /\ SystemIdFree
  /\ grp2 \notin DOMAIN groups /\ gconv2 \notin DOMAIN convs
  /\ creatorId \notin initialMembers
  /\ groups' = (grp2 :> [conversationId |-> gconv2,
                         members |-> (creatorId :> "ADMIN") @@
                                     [u \in initialMembers |-> "MEMBER"]])
                @@ groups
  /\ convs' = (gconv2 :> [isGroup |-> TRUE,
                          parts |-> newParticipants({creatorId} \cup initialMembers)])
               @@ convs
  /\ req' = [req EXCEPT ![r] = GroupEvent("group.created", gconv2, creatorId, creatorId)]
  /\ UNCHANGED <<clock, messages, cache>>
  /\ UNCHANGED <<presVars, fnVars>>

\* verifiedUserIds.filter(id => id !== currentUserId &&
\* !existingMemberIds.includes(id))
newUserIds(group, currentUserId, input) ==
  (input \cap Users) \ (DOMAIN group.members \cup {currentUserId})

\* GroupService.addMembers, lines 364-494, called by an admin with at least
\* one new user: memberships and participant rows are created in one
\* transaction, the members cache entry is invalidated, and
\* group.user.joined is emitted for the new member.
AddMembers(r, currentUserId, groupId, input) ==
  /\ req[r].pc = "idle" /\ SystemIdFree
  /\ groupId \in DOMAIN groups
  /\ currentUserId \in DOMAIN groups[groupId].members
  /\ groups[groupId].members[currentUserId] = "ADMIN"
  /\ Cardinality(newUserIds(groups[groupId], currentUserId, input)) = 1
  /\ LET new == newUserIds(groups[groupId], currentUserId, input)
         cid == groups[groupId].conversationId
     IN /\ groups' = [groups EXCEPT ![groupId].members =
                        [u \in new |-> "MEMBER"] @@ @]
        /\ convs' = [convs EXCEPT ![cid].parts = newParticipants(new) @@ @]
        /\ req' = [req EXCEPT ![r] =
             GroupEvent("group.user.joined", cid, CHOOSE u \in new : TRUE,
                        currentUserId)]
  /\ cache' = [g \in DOMAIN cache \ {groupId} |-> cache[g]]
  /\ UNCHANGED <<clock, messages>>
  /\ UNCHANGED <<presVars, fnVars>>

\* group.members.filter(m => m.role === ADMIN).length
adminCount(group) ==
  Cardinality({u \in DOMAIN group.members : group.members[u] = "ADMIN"})

\* GroupService.removeMember, lines 503-626, when none of its checks
\* throws: an admin removes a member, or a user other than the last admin
\* leaves.  The membership and the participant row of the group's
\* conversation are deleted in one transaction, the members cache entry is
\* invalidated, and group.user.left is emitted (removedBy is null for a
\* user who leaves).
RemoveMember(r, currentUserId, groupId, userId) ==
  /\ req[r].pc = "idle" /\ SystemIdFree
  /\ groupId \in DOMAIN groups
  /\ currentUserId \in DOMAIN groups[groupId].members
  /\ userId \in DOMAIN groups[groupId].members
  /\ groups[groupId].members[currentUserId] = "ADMIN" \/ userId = currentUserId
  /\ ~(/\ userId = currentUserId
        /\ groups[groupId].members[userId] = "ADMIN"
        /\ adminCount(groups[groupId]) = 1)
  /\ LET cid == groups[groupId].conversationId IN
     /\ groups' = [groups EXCEPT ![groupId].members =
                     [u \in DOMAIN @ \ {userId} |-> @[u]]]
     /\ convs' = [convs EXCEPT ![cid].parts =
                    [u \in DOMAIN @ \ {userId} |-> @[u]]]
     /\ req' = [req EXCEPT ![r] =
          GroupEvent("group.user.left", cid, userId,
                     IF userId = currentUserId THEN <<>> ELSE currentUserId)]
  /\ cache' = [g \in DOMAIN cache \ {groupId} |-> cache[g]]
  /\ UNCHANGED <<clock, messages>>
  /\ UNCHANGED <<presVars, fnVars>>

\* GroupService.promoteToAdmin (lines 634-756) and demoteFromAdmin (lines
\* 764-885) when none of the checks throws and the target does not hold
\* the role yet: an admin gives another member the role newRole, and
\* group.member.updated is emitted.  The members cache entry is left alone.
SetRole(r, currentUserId, groupId, targetUserId, newRole) ==
  /\ req[r].pc = "idle" /\ SystemIdFree
  /\ groupId \in DOMAIN groups
  /\ currentUserId \in DOMAIN groups[groupId].members
  /\ groups[groupId].members[currentUserId] = "ADMIN"
  /\ targetUserId # currentUserId
  /\ targetUserId \in DOMAIN groups[groupId].members
  /\ groups[groupId].members[targetUserId] # newRole
  /\ groups' = [groups EXCEPT ![groupId].members[targetUserId] = newRole]
  /\ req' = [req EXCEPT ![r] =
       GroupEvent("group.member.updated", groups[groupId].conversationId,
                  targetUserId, currentUserId)]
  /\ UNCHANGED <<clock, convs, messages, cache>>
  /\ UNCHANGED <<presVars, fnVars>>

PromoteToAdmin(r, currentUserId, groupId, targetUserId) ==
  SetRole(r, currentUserId, groupId, targetUserId, "ADMIN")

DemoteFromAdmin(r, currentUserId, groupId, targetUserId) ==
  SetRole(r, currentUserId, groupId, targetUserId, "MEMBER")

\* The same two operations as the database runs them: the transaction is
\* an interactive one at the default isolation level (READ COMMITTED), so
\* its findUnique and its write are two statements between which other
\* transactions commit.  The read step makes the checks on what it read;
\* the request keeps the group (p.conversationId), the target (p.senderId)
\* and the new role (flag: ADMIN).
RoleTxRead(r, currentUserId, groupId, targetUserId, newRole) ==
  /\ req[r].pc = "idle" /\ SystemIdFree
  /\ groupId \in DOMAIN groups
  /\ currentUserId \in DOMAIN groups[groupId].members
  /\ groups[groupId].members[currentUserId] = "ADMIN"
  /\ targetUserId # currentUserId
  /\ targetUserId \in DOMAIN groups[groupId].members
  /\ groups[groupId].members[targetUserId] # newRole
  /\ req' = [req EXCEPT ![r] =
       [NewReq("tx.role", currentUserId,
               Envelope(<<>>, groupId, targetUserId, "absent", BareBody),
               newRole = "ADMIN")
          EXCEPT !.pc = "write"]]
  /\ UNCHANGED <<clock, convs, messages, groups, cache>>
  /\ UNCHANGED <<presVars, fnVars>>

\* tx.groupMember.update({where: {id}}) and the commit; a membership row
\* deleted meanwhile makes the update throw (P2025).
RoleTxWrite(r) ==
  /\ req[r].kind = "tx.role" /\ req[r].pc = "write"
  /\ LET groupId == req[r].p.conversationId
         targetUserId == req[r].p.senderId
     IN IF groupId \in DOMAIN groups /\ targetUserId \in DOMAIN groups[groupId].members
          THEN /\ groups' = [groups EXCEPT ![groupId].members[targetUserId] =
                               IF req[r].flag THEN "ADMIN" ELSE "MEMBER"]
               /\ req' = [req EXCEPT ![r] =
                    GroupEvent("group.member.updated", groups[groupId].conversationId,
                               targetUserId, req[r].auth)]
          ELSE /\ req' = [req EXCEPT ![r] = Throw(@, "P2025")]
               /\ UNCHANGED groups
  /\ UNCHANGED <<clock, convs, messages, cache>>
  /\ UNCHANGED <<presVars, fnVars>>

\* removeMember's findUnique and checks (lines 508-574).
RemoveTxRead(r, currentUserId, groupId, userId) ==
  /\ req[r].pc = "idle" /\ SystemIdFree
  /\ groupId \in DOMAIN groups
  /\ currentUserId \in DOMAIN groups[groupId].members
  /\ userId \in DOMAIN groups[groupId].members
  /\ groups[groupId].members[currentUserId] = "ADMIN" \/ userId = currentUserId
  /\ ~(/\ userId = currentUserId
        /\ groups[groupId].members[userId] = "ADMIN"
        /\ adminCount(groups[groupId]) = 1)
  /\ req' = [req EXCEPT ![r] =
       [NewReq("tx.remove", currentUserId,
               Envelope(<<>>, groupId, userId, "absent", BareBody), FALSE)
          EXCEPT !.pc = "write"]]
  /\ UNCHANGED <<clock, convs, messages, groups, cache>>
  /\ UNCHANGED <<presVars, fnVars>>

\* removeMember's tx.groupMember.delete, tx.participant.deleteMany, the
\* commit, the cache invalidation and the event (lines 576-618); a
\* membership row deleted meanwhile makes the delete throw (P2025).
RemoveTxWrite(r) ==
  /\ req[r].kind = "tx.remove" /\ req[r].pc = "write"
  /\ LET groupId == req[r].p.conversationId
         userId == req[r].p.senderId
     IN IF groupId \in DOMAIN groups /\ userId \in DOMAIN groups[groupId].members
          THEN /\ groups' = [groups EXCEPT ![groupId].members =
                               [u \in DOMAIN @ \ {userId} |-> @[u]]]
               /\ convs' = [convs EXCEPT ![groups[groupId].conversationId].parts =
                              [u \in DOMAIN @ \ {userId} |-> @[u]]]
               /\ cache' = [g \in DOMAIN cache \ {groupId} |-> cache[g]]
               /\ req' = [req EXCEPT ![r] =
                    GroupEvent("group.user.left", groups[groupId].conversationId,
                               userId,
                               IF userId = req[r].auth THEN <<>> ELSE req[r].auth)]
          ELSE /\ req' = [req EXCEPT ![r] = Throw(@, "P2025")]
               /\ UNCHANGED <<groups, convs, cache>>
  /\ UNCHANGED <<clock, messages>>
  /\ UNCHANGED <<presVars, fnVars>>

\* GroupService.disbandGroup, lines 892-961, called by an admin:
\* tx.group.delete cascades to the conversation, its participants and the
\* memberships; then group.deleted is emitted.  The members cache entry is
\* left alone.
DisbandGroup(r, currentUserId, groupId) ==
  /\ req[r].pc = "idle"
  /\ groupId \in DOMAIN groups
  /\ currentUserId \in DOMAIN groups[groupId].members
  /\ groups[groupId].members[currentUserId] = "ADMIN"
  /\ groups' = [g \in DOMAIN groups \ {groupId} |-> groups[g]]
  /\ convs' = [c \in DOMAIN convs \ {groups[groupId].conversationId} |-> convs[c]]
  /\ messages' = [i \in { j \in DOMAIN messages :
                            messages[j].conversationId # groups[groupId].conversationId }
                    |-> messages[i]]
  /\ req' = [req EXCEPT ![r] = GroupDeletedEvent(groupId, currentUserId)]
  /\ UNCHANGED <<clock, cache>>
  /\ UNCHANGED <<presVars, fnVars>>

\* ChatGateway.handleGroupDeleted, lines 1453-1475: the handler logs a
\* warning; it reads nothing and emits nothing.
HandleGroupDeleted(r) ==
  /\ req[r].kind = "group.deleted" /\ req[r].pc = "start"
  /\ req' = [req EXCEPT ![r] = [@ EXCEPT !.pc = "done", !.logged = "warn"]]
  /\ UNCHANGED <<clock, convs, messages, groups, cache>>
  /\ UNCHANGED <<presVars, fnVars>>

\* The row sendSystemMessage creates (lines 1292-1317).
systemMessage(conversationId, text, now) ==
  [timestamp |-> now, contentType |-> "SYSTEM", content |-> "system",
   metadata |-> text, message |-> text, action |-> "INSERT",
   senderId |-> <<>>, conversationId |-> conversationId, deletedAt |-> <<>>]

\* The events that end in sendSystemMessage.
SystemMessageEvents ==
  {"group.created", "group.user.joined", "group.user.left",
   "group.member.updated"}

\* ChatGateway.handleGroupCreated / handleUserJoinedGroup /
\* handleUserLeftGroup / handleMemberUpdated with sendSystemMessage, lines
\* 1281-1343: prisma.message.create under a fresh id, then `message` to
\* every participant of the conversation; no push.  The row is created
\* with `sender: {}`, a nested input that names no user: dbOk = FALSE is
\* the create being refused for it (or failing otherwise); so is a
\* conversation that is gone.  The catch block only logs.
SendSystemMessage(r, dbOk) ==
  /\ req[r].kind \in SystemMessageEvents
  /\ req[r].pc = "start"
  /\ LET cid == req[r].p.conversationId IN
     IF ~dbOk \/ cid \notin DOMAIN convs
       THEN /\ req' = [req EXCEPT ![r] = Throw(@, "db")]
            /\ UNCHANGED messages
       ELSE /\ messages' =
                 ((CHOOSE i \in SystemIds : i \notin DOMAIN messages) :>
                    systemMessage(cid, req[r].kind, clock)) @@ messages
            /\ req' = [req EXCEPT ![r] =
                 [@ EXCEPT !.pc = "done", !.event = "message",
                           !.persisted = TRUE,
                           !.snap = Participants(convs[cid]),
                           !.delivered = Participants(convs[cid])]]
  /\ UNCHANGED <<clock, convs, groups, cache>>
  /\ UNCHANGED <<presVars, fnVars>>

(***************************************************************************)
(* Presence (PresenceService) and the connection lifecycle                 *)
(* (ChatGateway.handleConnection / handleDisconnect), one step per Redis   *)
(* command and per await.                                                  *)
(***************************************************************************)
\* Sockets that connect during a run; each socket id is used once.
NSockets == 2
Sockets == 1..NSockets

\* The user whose session cookie the socket's handshake carries: two
\* devices of amy, any further socket is bob's.
SockUser(c) == IF c \in {1, 2} THEN amy ELSE bob

NewSocket ==
  [transport |-> "new",   \* new, open, closed
   session |-> FALSE,     \* auth.api.getSession would return a session
   conn |-> "none",       \* handleConnection: none, auth, join, done, rejected
   add |-> "none",        \* addConnection in the background: none, expire, done
   disc |-> "none",       \* handleDisconnect: none, auth, nosession, srem,
                          \* scard, del, ret, done
   ret |-> "none"]        \* what removeConnection returned: none, true, false

\* redis.sadd(key, socketId)
sadd(store, userId, socketId) ==
  [store EXCEPT ![userId] = @ \cup {socketId}]

\* redis.srem(key, socketId)
srem(store, userId, socketId) ==
  [store EXCEPT ![userId] = @ \ {socketId}]

\* A count that finds every set empty.
scardZero(store, userId) == 0

\* redis.scard(key)
scard(store, userId) == Cardinality(store[userId])

\* redis.del(key)
del(store, userId) == [store EXCEPT ![userId] = {}]

\* The transport connects; handleConnection starts and awaits getSession.
SocketOpen(c, hasSession) ==
  /\ sock[c].transport = "new"
  /\ sock' = [sock EXCEPT ![c] =
       [@ EXCEPT !.transport = "open", !.session = hasSession,
                 !.conn = "auth"]]
  /\ UNCHANGED <<presence, emitted>>
  /\ UNCHANGED <<msgVars, fnVars>>

\* The session ends (expiry or sign-out) while the socket is around.
SessionEnd(c) ==
  /\ sock[c].transport # "new"
  /\ sock[c].session
  /\ sock' = [sock EXCEPT ![c] = [@ EXCEPT !.session = FALSE]]
  /\ UNCHANGED <<presence, emitted>>
  /\ UNCHANGED <<msgVars, fnVars>>

\* The disconnect of the transport starts handleDisconnect, which awaits
\* getSession.
closeSocket(s) ==
  IF s.transport = "open"
    THEN [s EXCEPT !.transport = "closed", !.disc = "auth"]
    ELSE s

\* The client goes away.
SocketClose(c) ==
  /\ sock[c].transport = "open"
  /\ sock' = [sock EXCEPT ![c] = closeSocket(@)]
  /\ UNCHANGED <<presence, emitted>>
  /\ UNCHANGED <<msgVars, fnVars>>

\* handleConnection, lines 700-711: without a session the socket is
\* disconnected; with one, addConnection is started (not awaited) and its
\* SADD is on the wire before the handler goes on to client.join.
ConnAuth(c) ==
  /\ sock[c].conn = "auth"
  /\ IF ~sock[c].session
       THEN /\ sock' = [sock EXCEPT ![c] = [closeSocket(@) EXCEPT !.conn = "rejected"]]
            /\ UNCHANGED presence
       ELSE /\ presence' = sadd(presence, SockUser(c), c)
            /\ sock' = [sock EXCEPT ![c] = [@ EXCEPT !.conn = "join", !.add = "expire"]]
  /\ UNCHANGED emitted
  /\ UNCHANGED <<msgVars, fnVars>>

\* addConnection, line 18: redis.expire(key, 3600).
AddExpire(c) ==
  /\ sock[c].add = "expire"
  /\ sock' = [sock EXCEPT ![c] = [@ EXCEPT !.add = "done"]]
  /\ UNCHANGED <<presence, emitted>>
  /\ UNCHANGED <<msgVars, fnVars>>

\* client.broadcast.emit('user_status_change', {userId, status})
statusChange(c, status) == [sock |-> c, userId |-> SockUser(c), status |-> status]

\* handleConnection, lines 713-718: the room is joined and online is
\* broadcast.
ConnJoin(c) ==
  /\ sock[c].conn = "join"
  /\ sock' = [sock EXCEPT ![c] = [@ EXCEPT !.conn = "done"]]
  /\ emitted' = emitted \cup {statusChange(c, "online")}
  /\ UNCHANGED presence
  /\ UNCHANGED <<msgVars, fnVars>>

\* handleDisconnect, lines 722-728: without a session the handler returns.
DiscAuth(c) ==
  /\ sock[c].disc = "auth"
  /\ sock' = [sock EXCEPT ![c] =
       [@ EXCEPT !.disc = IF sock[c].session THEN "srem" ELSE "nosession"]]
  /\ UNCHANGED <<presence, emitted>>
  /\ UNCHANGED <<msgVars, fnVars>>

\* removeConnection, line 25.
RemoveSrem(c) ==
  /\ sock[c].disc = "srem"
  /\ presence' = srem(presence, SockUser(c), c)
  /\ sock' = [sock EXCEPT ![c] = [@ EXCEPT !.disc = "scard"]]
  /\ UNCHANGED emitted
  /\ UNCHANGED <<msgVars, fnVars>>

\* removeConnection, lines 28-36: SCARD; a non-zero count returns false and
\* handleDisconnect broadcasts nothing.
RemoveScard(c) ==
  /\ sock[c].disc = "scard"
  /\ sock' = [sock EXCEPT ![c] =
       IF scard(presence, SockUser(c)) = 0
         THEN [@ EXCEPT !.disc = "del"]
         ELSE [@ EXCEPT !.disc = "done", !.ret = "false"]]
  /\ UNCHANGED <<presence, emitted>>
  /\ UNCHANGED <<msgVars, fnVars>>

\* removeConnection, line 32: DEL of the key.
RemoveDel(c) ==
  /\ sock[c].disc = "del"
  /\ presence' = del(presence, SockUser(c))
  /\ sock' = [sock EXCEPT ![c] = [@ EXCEPT !.disc = "ret", !.ret = "true"]]
  /\ UNCHANGED emitted
  /\ UNCHANGED <<msgVars, fnVars>>

\* removeConnection returns true; handleDisconnect, lines 737-743,
\* broadcasts offline.
DiscOffline(c) ==
  /\ sock[c].disc = "ret"
  /\ sock' = [sock EXCEPT ![c] = [@ EXCEPT !.disc = "done"]]
  /\ emitted' = emitted \cup {statusChange(c, "offline")}
  /\ UNCHANGED presence
  /\ UNCHANGED <<msgVars, fnVars>>

\* redis.exists(key): a set key exists while the set has a member.
exists(store, userId) == IF store[userId] # {} THEN 1 ELSE 0

\* PresenceService.getStatus
getStatus(store, userId) ==
  IF exists(store, userId) # 0 THEN "online" ELSE "offline"

\* No handleConnection, addConnection or handleDisconnect is under way.
Quiet ==
  \A c \in Sockets :
    /\ sock[c].conn \in {"none", "done", "rejected"}
    /\ sock[c].add \in {"none", "done"}
    /\ sock[c].disc \in {"none", "nosession", "done"}

\* The key presence:<userId> reaches the end of its TTL (3600 s after the
\* last addConnection) and Redis drops it.
KeyExpire(userId) ==
  /\ presence[userId] # {}
  /\ presence' = del(presence, userId)
  /\ UNCHANGED <<sock, emitted>>
  /\ UNCHANGED <<msgVars, fnVars>>

NextPresence ==
  \E c \in Sockets :
    \/ \E hasSession \in BOOLEAN : SocketOpen(c, hasSession)
    \/ SessionEnd(c)
    \/ SocketClose(c)
    \/ ConnAuth(c)
    \/ AddExpire(c)
    \/ ConnJoin(c)
    \/ DiscAuth(c)
    \/ RemoveSrem(c)
    \/ RemoveScard(c)
    \/ RemoveDel(c)
    \/ DiscOffline(c)

\* PresenceService.getStatus as a call: redis.exists is awaited with no
\* try/catch, so a command the client rejects (the store cannot be reached)
\* rejects the call.
GetStatus(userId, up) ==
  /\ fnArg' = [op |-> "getStatus", userIds |-> {userId}, up |-> up]
  /\ fnOut' = IF up
       THEN [pc |-> "done", threw |-> FALSE,
             status |-> [u \in {userId} |-> getStatus(presence, u)]]
       ELSE [pc |-> "done", threw |-> TRUE, status |-> <<>>]
  /\ UNCHANGED <<msgVars, presVars>>

\* pipeline.exec(): one [error, value] entry per queued EXISTS; for a
\* command that failed the entry holds the error and no value.
pipelineExec(store, userIds, up) ==
  [u \in userIds |->
     IF up THEN [error |-> FALSE, hasValue |-> TRUE, value |-> exists(store, u)]
           ELSE [error |-> TRUE, hasValue |-> FALSE, value |-> 0]]

\* PresenceService.getBulkStatus: exists ? 'online' : 'offline' over
\* results?.[i]?.[1]; an empty list gives an empty map.
getBulkStatus(store, userIds, up) ==
  [u \in userIds |->
     IF /\ pipelineExec(store, userIds, up)[u].hasValue
        /\ pipelineExec(store, userIds, up)[u].value # 0
       THEN "online" ELSE "offline"]

GetBulkStatus(userIds, up) ==
  /\ fnArg' = [op |-> "getBulkStatus", userIds |-> userIds, up |-> up]
  /\ fnOut' = [pc |-> "done", threw |-> FALSE,
               status |-> getBulkStatus(presence, userIds, up)]
  /\ UNCHANGED <<msgVars, presVars>>

\* The same steps with one handler at a time: a socket connects or
\* disconnects, a session ends or a key expires only while no handler is
\* under way.
NextPresenceSeq ==
  \/ \E c \in Sockets :
       \/ \E hasSession \in BOOLEAN : Quiet /\ SocketOpen(c, hasSession)
       \/ Quiet /\ SessionEnd(c)
       \/ Quiet /\ SocketClose(c)
       \/ ConnAuth(c)
       \/ AddExpire(c)
       \/ ConnJoin(c)
       \/ DiscAuth(c)
       \/ RemoveSrem(c)
       \/ RemoveScard(c)
       \/ RemoveDel(c)
       \/ DiscOffline(c)
  \/ \E u \in Users : Quiet /\ KeyExpire(u)

(***************************************************************************)
(* Initial state and the message-protocol specifications.                  *)
(***************************************************************************)
InitMsg ==
  /\ clock = 1
  /\ convs = (gconv :> [isGroup |-> TRUE,
                        parts |-> (amy :> Epoch) @@ (cat :> Epoch)])
  /\ messages = <<>>
  /\ groups = (grp :> [conversationId |-> gconv,
                       members |-> (amy :> "ADMIN") @@ (cat :> "MEMBER")])
  /\ cache = <<>>
  /\ req = [r \in Slots |-> IdleReq]

InitPresence ==
  /\ presence = [u \in Users |-> {}]
  /\ sock = [c \in Sockets |-> NewSocket]
  /\ emitted = {}

\* No id computation is under way.
InitFn ==
  /\ fnArg = [userId1 |-> <<>>, userId2 |-> <<>>, conversationId |-> <<>>]
  /\ fnOut = [pc |-> "idle", id |-> <<>>, swapped |-> <<>>, parts |-> <<>>,
              isDM |-> FALSE, rawIsDM |-> FALSE]

Init == InitMsg /\ InitPresence /\ InitFn

\* The handler has returned; the slot is free for the next request.
Complete(r) ==
  /\ req[r].pc = "done"
  /\ req' = [req EXCEPT ![r] = IdleReq]
  /\ UNCHANGED <<clock, convs, messages, groups, cache>>
  /\ UNCHANGED <<presVars, fnVars>>

\* send_message alone, one request at a time, over every envelope.
Next ==
  \/ \E r \in SeqSlots :
       \/ \E auth \in Users, p \in SendPayloads : SendReceive(r, auth, p)
       \/ SendCreate(r)
       \/ \E dbOk \in BOOLEAN : SendPersist(r, dbOk)
       \/ \E dbOk \in BOOLEAN : SendDeleteNotify(r, dbOk)
       \/ SendBroadcast(r)
       \/ \E dbOk \in BOOLEAN : SendNotify(r, dbOk)
       \/ Complete(r)
  \/ Tick

Spec == Init /\ [][Next]_vars

\* send_message requests in flight together, on the DM of amy and bob.
NextRace ==
  \E r \in Slots :
    \/ \E p \in RacePayloads : SendReceive(r, p.senderId, p)
    \/ SendCreate(r)
    \/ \E dbOk \in BOOLEAN : SendPersist(r, dbOk)
    \/ \E dbOk \in BOOLEAN : SendDeleteNotify(r, dbOk)
    \/ SendBroadcast(r)
    \/ \E dbOk \in BOOLEAN : SendNotify(r, dbOk)
    \/ Complete(r)

SpecRace == Init /\ [][NextRace]_vars

\* Messages with client timestamps and read receipts in the group
\* conversation.
NextUnread ==
  \/ \E r \in SeqSlots :
       \/ \E p \in UnreadPayloads : SendReceive(r, p.senderId, p)
       \/ SendPersist(r, TRUE)
       \/ SendDeleteNotify(r, TRUE)
       \/ SendBroadcast(r)
       \/ SendNotify(r, TRUE)
       \/ \E auth \in {amy, cat} : MarkReadReceive(r, auth, gconv)
       \/ MarkReadWrite(r, TRUE)
       \/ Complete(r)
  \/ Tick

SpecUnread == Init /\ [][NextUnread]_vars

\* The three client events side by side, with the members cache.
NextSignals ==
  \/ \E r \in SeqSlots :
       \/ \E auth \in Users, p \in SignalSendPayloads : SendReceive(r, auth, p)
       \/ SendCreate(r)
       \/ \E dbOk \in BOOLEAN : SendPersist(r, dbOk)
       \/ SendBroadcast(r)
       \/ \E dbOk \in BOOLEAN : SendNotify(r, dbOk)
       \/ \E auth \in Users, c \in EventConvIds, t \in BOOLEAN : Typing(r, auth, c, t)
       \/ \E auth \in Users, c \in EventConvIds : MarkReadReceive(r, auth, c)
       \/ \E dbOk \in BOOLEAN : MarkReadWrite(r, dbOk)
       \/ Complete(r)
  \/ \E u \in Users : GetGroupMembers(u, grp)
  \/ CacheExpire(grp)
  \/ Tick

SpecSignals == Init /\ [][NextSignals]_vars

\* SpecGroups: amy's first message to bob, under the id of their DM and
\* under the id with the two users in descending order.
GroupSendPayloads ==
  { Envelope(m1, c, amy, "INSERT", FullBody1) : c \in {dmAmyBob, dmBobAmy} }

\* The user lists given to createGroup and addMembers.
MemberInputs == {{}, {bob}, {cat}, {bob, zed}}

\* Groups created, extended, shrunk, read and disbanded, next to the
\* creation of a DM.
NextGroups ==
  \E r \in SeqSlots :
    \/ \E u \in Users, ms \in MemberInputs \cap SUBSET Users : CreateGroup(r, u, ms)
    \/ \E u \in Users, g \in {grp, grp2}, ms \in MemberInputs : AddMembers(r, u, g, ms)
    \/ \E u \in Users, g \in {grp, grp2}, v \in Users : RemoveMember(r, u, g, v)
    \/ \E u \in Users, v \in Users : PromoteToAdmin(r, u, grp, v)
    \/ \E u \in Users, v \in Users : DemoteFromAdmin(r, u, grp, v)
    \/ \E u \in Users, g \in {grp, grp2} : DisbandGroup(r, u, g)
    \/ HandleGroupDeleted(r)
    \/ \E dbOk \in BOOLEAN : SendSystemMessage(r, dbOk)
    \/ \E p \in GroupSendPayloads : SendReceive(r, p.senderId, p)
    \/ SendCreate(r)
    \/ SendPersist(r, TRUE)
    \/ SendBroadcast(r)
    \/ SendNotify(r, TRUE)
    \/ \E auth \in {amy, cat} : MarkReadReceive(r, auth, gconv)
    \/ MarkReadWrite(r, TRUE)
    \/ Complete(r)

SpecGroups == Init /\ [][NextGroups]_vars

\* Member lists asked for by members and by others, while the group gains
\* and loses members and the cache entry comes and goes.
NextMembers ==
  \/ \E r \in SeqSlots :
       \/ \E u \in Users, g \in {grp, grp2} : GetGroupMembersCall(r, u, g)
       \/ \E u \in Users, ms \in MemberInputs : AddMembers(r, u, grp, ms)
       \/ \E u \in Users, v \in Users : RemoveMember(r, u, grp, v)
       \/ \E u \in Users, v \in Users : PromoteToAdmin(r, u, grp, v)
       \/ \E u \in Users, v \in Users : DemoteFromAdmin(r, u, grp, v)
       \/ \E dbOk \in BOOLEAN : SendSystemMessage(r, dbOk)
       \/ Complete(r)
  \/ CacheExpire(grp)

SpecMembers == Init /\ [][NextMembers]_vars

\* Member lists read, step by step, while other requests add and remove
\* members of the same group.
NextCache ==
  \/ \E r \in Slots :
       \/ \E u \in Users : MembersCacheGet(r, u, grp)
       \/ MembersFind(r)
       \/ MembersCacheSet(r)
       \/ \E u \in Users, ms \in MemberInputs : AddMembers(r, u, grp, ms)
       \/ \E u \in Users, v \in Users : RemoveMember(r, u, grp, v)
       \/ \E dbOk \in BOOLEAN : SendSystemMessage(r, dbOk)
       \/ Complete(r)
  \/ CacheExpire(grp)

SpecCache == Init /\ [][NextCache]_vars

\* Read marks of the members of the group conversation, over the socket
\* and over REST, in flight together while time passes.
NextReads ==
  \/ \E r \in Slots :
       \/ \E auth \in Users, c \in {gconv, ghost} : MarkReadReceive(r, auth, c)
       \/ \E auth \in Users, c \in {gconv, ghost} : RestMarkAsRead(r, auth, c)
       \/ \E dbOk \in BOOLEAN : MarkReadWrite(r, dbOk)
       \/ RestMarkAsReadWrite(r)
       \/ Complete(r)
  \/ Tick

SpecReads == Init /\ [][NextReads]_vars

\* Every socket has connected: handleConnection and addConnection have run
\* to their end for each, and online has been broadcast.
InitConnected ==
  /\ InitMsg /\ InitFn
  /\ presence = [u \in Users |-> {c \in Sockets : SockUser(c) = u}]
  /\ sock = [c \in Sockets |->
               [NewSocket EXCEPT !.transport = "open", !.session = TRUE,
                                 !.conn = "done", !.add = "done"]]
  /\ emitted = {statusChange(c, "online") : c \in Sockets}

\* The connected sockets go away, in any order and overlap.
NextDisconnects ==
  \E c \in Sockets :
    \/ SessionEnd(c)
    \/ SocketClose(c)
    \/ DiscAuth(c)
    \/ RemoveSrem(c)
    \/ RemoveScard(c)
    \/ RemoveDel(c)
    \/ DiscOffline(c)

SpecDisconnects == InitConnected /\ [][NextDisconnects]_vars

\* A group in which amy has made cat an admin and added bob.
InitAdmins ==
  /\ clock = 1
  /\ convs = (gconv :> [isGroup |-> TRUE, parts |-> newParticipants(Users)])
  /\ messages = <<>>
  /\ groups = (grp :> [conversationId |-> gconv,
                       members |-> (amy :> "ADMIN") @@ (cat :> "ADMIN") @@
                                   (bob :> "MEMBER")])
  /\ cache = <<>>
  /\ req = [r \in Slots |-> IdleReq]
  /\ InitPresence /\ InitFn

\* Role changes and removals whose transactions overlap.
NextAdmins ==
  \E r \in Slots :
    \/ \E u \in Users, v \in Users, role \in {"ADMIN", "MEMBER"} :
         RoleTxRead(r, u, grp, v, role)
    \/ RoleTxWrite(r)
    \/ \E u \in Users, v \in Users : RemoveTxRead(r, u, grp, v)
    \/ RemoveTxWrite(r)
    \/ \E u \in Users : CreateGroup(r, u, {})
    \/ \E u \in Users, ms \in MemberInputs : AddMembers(r, u, grp, ms)
    \/ \E dbOk \in BOOLEAN : SendSystemMessage(r, dbOk)
    \/ Complete(r)

SpecAdmins == InitAdmins /\ [][NextAdmins]_vars

(***************************************************************************)
(* The DM id scheme as a client and the gateway compute it.                *)
(***************************************************************************)
\* The longest user id and the longest raw conversation id tried.
MaxIdLen == 2
MaxRawLen == 3
\* Strings over two letters and the underscore.
Alphabet == {97, 98, Underscore}
StringsUpTo(n) == UNION { [1..k -> Alphabet] : k \in 0..n }

InitDMId ==
  /\ InitMsg /\ InitPresence
  /\ fnArg \in [userId1 : StringsUpTo(MaxIdLen), userId2 : StringsUpTo(MaxIdLen),
                 conversationId : {<<>>}]
  /\ fnOut = [pc |-> "start", id |-> <<>>, swapped |-> <<>>, parts |-> <<>>,
              isDM |-> FALSE, rawIsDM |-> FALSE]

\* The two clients compute the id, each with its own user first.
ResolveDMId ==
  /\ fnOut.pc = "start"
  /\ fnOut' = [fnOut EXCEPT !.pc = "resolved",
                 !.id = getDMConversationId(fnArg.userId1, fnArg.userId2),
                 !.swapped = getDMConversationId(fnArg.userId2, fnArg.userId1)]
  /\ UNCHANGED <<msgVars, presVars, fnArg>>

\* The gateway looks at the computed id (lines 784-789).
RecogniseDMId ==
  /\ fnOut.pc = "resolved"
  /\ fnOut' = [fnOut EXCEPT !.pc = "recognised",
                 !.isDM = isDMConversationId(fnOut.id),
                 !.parts = Split(fnOut.id)]
  /\ UNCHANGED <<msgVars, presVars, fnArg>>

\* The gateway looks at a conversation id as it came in.
RecogniseRawId(conversationId) ==
  /\ fnOut.pc = "recognised"
  /\ fnArg' = [fnArg EXCEPT !.conversationId = conversationId]
  /\ fnOut' = [fnOut EXCEPT !.pc = "done",
                 !.rawIsDM = isDMConversationId(conversationId)]
  /\ UNCHANGED <<msgVars, presVars>>

NextDMId ==
  \/ ResolveDMId
  \/ RecogniseDMId
  \/ \E s \in StringsUpTo(MaxRawLen) : RecogniseRawId(s)

SpecDMId == InitDMId /\ [][NextDMId]_vars

\* Connects and disconnects of NSockets sockets, in any interleaving.
SpecPresence == Init /\ [][NextPresence]_vars

SpecPresenceSeq == Init /\ [][NextPresenceSeq]_vars

\* Status queries between the connects and disconnects, with the presence
\* store reachable or not.
NextStatus ==
  \/ NextPresenceSeq
  \/ \E u \in Users, up \in BOOLEAN : GetStatus(u, up)
  \/ \E ids \in SUBSET Users, up \in BOOLEAN : GetBulkStatus(ids, up)

SpecStatus == Init /\ [][NextStatus]_vars
(***************************************************************************)
(* Properties.                                                             *)
(***************************************************************************)
\* The send_message request in slot r takes its persistence step.
PersistStep(r) == req[r].kind = "send" /\ req[r].pc = "persist" /\ req'[r] # req[r]

\* C1: INSERT is idempotent by message id.  When the persistence step of an
\* INSERT finds a row under the envelope's id, the message table is left as
\* it was, whatever the envelope carries; the duplicate raises no error of
\* its own (the only failure left is the store itself failing), no err goes
\* to the sender and the request goes on to its broadcast.  A request that
\* has persisted never ends with an err.
C1_InsertIdempotent ==
  /\ [][\A r \in Slots :
          (/\ PersistStep(r)
           /\ Data(req[r]).action = "INSERT"
           /\ Data(req[r]).id \in DOMAIN messages)
          => /\ messages' = messages
             /\ req'[r].err = "none"
             /\ req'[r].logged \in {"none", "db"}
             /\ (req'[r].logged = "none" =>
                   req'[r].pc = "broadcast" /\ req'[r].persisted)]_vars
  /\ [](\A r \in Slots : req[r].persisted => req[r].err = "none")

\* A duplicate INSERT carrying other content than the stored row has been
\* accepted and is about to be broadcast; the row still holds the first
\* content.
C1_Witness ==
  \E r \in Slots :
    /\ req[r].kind = "send" /\ req[r].pc = "broadcast"
    /\ Data(req[r]).action = "INSERT"
    /\ Data(req[r]).id \in DOMAIN messages
    /\ messages[Data(req[r]).id].content # Data(req[r]).content
    /\ messages[Data(req[r]).id].action = "INSERT"

\* C2: broadcast-after-commit.  The `message` event of a send_message has
\* reached participants only if the request's persistence call completed
\* successfully before; a request whose handler threw without having
\* persisted has reached nobody.
C2_BroadcastAfterCommit ==
  \A r \in Slots :
    req[r].kind = "send" =>
      /\ (req[r].delivered # {} => req[r].persisted)
      /\ (req[r].logged # "none" /\ ~req[r].persisted => req[r].delivered = {})

\* A persisted envelope has been broadcast to the conversation's
\* participants.
C2_Witness ==
  \E r \in Slots :
    /\ req[r].kind = "send" /\ req[r].pc = "notify"
    /\ req[r].persisted
    /\ req[r].delivered = req[r].snap /\ Cardinality(req[r].delivered) = 2

\* Sockets of userId whose SADD has been applied and whose SREM has not.
AddedNotRemoved(userId) ==
  { c \in Sockets :
      /\ SockUser(c) = userId
      /\ sock[c].add # "none"
      /\ sock[c].disc \notin {"scard", "del", "ret", "done"} }

\* C3: removeConnection is atomic.  Under any interleaving of the commands
\* of addConnection and removeConnection for one user, removeConnection
\* returns true only if at that moment the user has no connection that was
\* added and not yet removed, and a connection added concurrently is still
\* in the user's presence set afterwards.
C3_RemoveConnectionAtomic ==
  /\ [][\A c \in Sockets :
          (sock[c].disc = "del" /\ sock'[c].disc = "ret")
          => AddedNotRemoved(SockUser(c))' = {}]_vars
  /\ [](\A u \in Users : AddedNotRemoved(u) \subseteq presence[u])

\* The socket is connected and authenticated: its transport is open and
\* handleConnection has run to its end.
Live(c) == sock[c].transport = "open" /\ sock[c].conn = "done"

\* C4: user_status_change offline for a user is broadcast only by a
\* disconnect after which that user has no live connection: no step emits
\* an offline event of a user while another socket of that user is live.
C4_OfflineOnlyWhenNoneLive ==
  [][\A c \in Sockets :
       (statusChange(c, "offline") \in emitted' \ emitted)
       => \A d \in Sockets \ {c} : SockUser(d) = SockUser(c) => ~Live(d)']_vars

\* C5: the DM creation race.  A well-formed INSERT to the DM of amy and bob,
\* sent by a participant while another request is creating the same DM,
\* does not fail: unless the store itself fails, it ends persisted and
\* broadcast to both participants, and the conversation has exactly its two
\* participant rows.
C5_CreationRaceNoFailure ==
  \A r \in Slots :
    (/\ req[r].kind = "send" /\ req[r].pc = "done"
     /\ Data(req[r]).action = "INSERT"
     /\ req[r].logged # "db")
    => /\ req[r].persisted
       /\ req[r].delivered = {amy, bob}
       /\ Participants(convs[dmAmyBob]) = {amy, bob}

\* The request in slot r changes in this step and is a send_message whose
\* senderId is not the authenticated user of the connection.
ImpersonationStep(r) ==
  /\ req'[r] # req[r]
  /\ req'[r].kind = "send"
  /\ req'[r].auth # req'[r].p.senderId

\* C6: impersonation is rejected with no side effect.  Every step of a
\* send_message whose senderId differs from the authenticated user ends the
\* request with an err to the sender, leaves the conversation, participant
\* and message rows as they were (no DM is created), broadcasts nothing and
\* sends nothing to the notification sink.
C6_ImpersonationRejected ==
  [][\A r \in Slots :
       ImpersonationStep(r)
       => /\ req'[r].pc = "done"
          /\ req'[r].err \in {ErrParse, ErrSender}
          /\ convs' = convs
          /\ messages' = messages
          /\ req'[r].delivered = {}
          /\ req'[r].push = {}
          /\ ~req'[r].persisted]_vars

\* amy's connection has sent a well-formed INSERT under bob's id to their
\* DM, which does not exist yet: the request has ended with the sender err
\* and the DM has not been created.
C6_Witness ==
  \E r \in Slots :
    /\ req[r].kind = "send" /\ req[r].pc = "done"
    /\ req[r].auth = amy /\ req[r].p.senderId = bob
    /\ req[r].p.conversationId = dmAmyBob
    /\ IncomingMessageSchema(req[r].p).success
    /\ req[r].err = ErrSender
    /\ dmAmyBob \notin DOMAIN convs
    /\ messages = <<>>

\* C7: UPDATE requires existence.  A finished send_message UPDATE, sent by a
\* participant under their own id, whose id has no stored message (and whose
\* store did not fail) has given the sender an err and has broadcast
\* nothing; the message row has not been created.
C7_UpdateRequiresExistence ==
  \A r \in Slots :
    (/\ req[r].kind = "send" /\ req[r].pc = "done"
     /\ IncomingMessageSchema(req[r].p).success
     /\ req[r].p.action = "UPDATE"
     /\ req[r].p.id \notin DOMAIN messages
     /\ req[r].logged # "db")
    => /\ req[r].err # "none"
       /\ req[r].delivered = {}

\* C8: DELETE is soft.  The successful persistence step of a DELETE leaves
\* the row in the table with deletedAt set, action DELETE, and content,
\* message, metadata, sender and conversation as they were; and no step
\* removes a message row.
C8_DeleteIsSoft ==
  [][/\ \A r \in Slots :
          (/\ PersistStep(r)
           /\ Data(req[r]).action = "DELETE"
           /\ req'[r].persisted)
          => LET id == Data(req[r]).id IN
             /\ id \in DOMAIN messages /\ id \in DOMAIN messages'
             /\ messages'[id].deletedAt # <<>>
             /\ messages'[id].action = "DELETE"
             /\ messages'[id].content = messages[id].content
             /\ messages'[id].message = messages[id].message
             /\ messages'[id].metadata = messages[id].metadata
             /\ messages'[id].contentType = messages[id].contentType
             /\ messages'[id].senderId = messages[id].senderId
             /\ messages'[id].conversationId = messages[id].conversationId
     /\ DOMAIN messages \subseteq DOMAIN messages']_vars

\* A DELETE has been persisted: the row is marked deleted and still holds
\* its content.
C8_Witness ==
  \E r \in Slots :
    /\ req[r].kind = "send" /\ req[r].persisted
    /\ Data(req[r]).action = "DELETE"
    /\ Data(req[r]).id \in DOMAIN messages
    /\ messages[Data(req[r]).id].deletedAt # <<>>
    /\ messages[Data(req[r]).id].action = "DELETE"
    /\ messages[Data(req[r]).id].content \in ValidContent

\* C9: every send_message ends in one of two outcomes.  When the handler
\* has returned, either the message event has been broadcast to the
\* conversation's participants or an err has been emitted to the sender,
\* also when a persistence or notification step threw.
C9_BroadcastOrErr ==
  \A r \in Slots :
    (req[r].kind = "send" /\ req[r].pc = "done")
    => (req[r].delivered # {} \/ req[r].err # "none")

\* The request as its handler received it.
Received(q) == NewReq(q.kind, q.auth, q.p, q.flag)

\* The err the handler gives the request when the conversation it names
\* has no row.
ErrWithoutRow(q) ==
  LET cid == q.p.conversationId
      absent == [c \in DOMAIN convs \ {cid} |-> convs[c]]
  IN CASE q.kind = "send" -> handleMessageStart(Received(q), absent).err
       [] q.kind = "typing" -> handleTypingEvent(Received(q), absent).err
       [] q.kind = "read" ->
            handleMarkAsReadStart(Received(q), cache, absent, clock).err

\* The request names an existing conversation of which its sender, who
\* passed the checks before the lookup, is not a participant.
NonParticipant(q) ==
  /\ q.kind \in {"send", "typing", "read"}
  /\ q.p.conversationId \in DOMAIN convs
  /\ q.auth \notin Participants(convs[q.p.conversationId])
  /\ q.kind = "send" =>
       IncomingMessageSchema(q.p).success /\ q.auth = q.p.senderId

OutsiderErr(q) ==
  LET cid == q.p.conversationId IN
  IF q.kind = "send"
    THEN IF isDMConversationId(cid) THEN ErrInvalidDM
         ELSE IF cid \in DOMAIN convs THEN ErrNotGroupMember
         ELSE ErrConvNotFound
    ELSE IF cid \in DOMAIN convs THEN ErrNotConvMember ELSE ErrConvNotFound

\* The request is one of a sender outside the conversation it names: the
\* conversation exists without the sender among its participants, or (the
\* case it is compared with) there is no such conversation, the id is
\* well-formed, and the handler looks it up in the conversation table
\* (send_message: the id is not a DM id of which the sender is a component;
\* mark_as_read: no cache entry is keyed by the id).
Outsider(q) ==
  LET cid == q.p.conversationId IN
  \/ NonParticipant(q)
  \/ /\ cid \notin DOMAIN convs
     /\ NonEmpty(cid)
     /\ \/ q.kind = "typing"
        \/ q.kind = "read" /\ cid \notin DOMAIN cache
        \/ /\ q.kind = "send"
           /\ IncomingMessageSchema(q.p).success /\ q.auth = q.p.senderId
           /\ ~(isDMConversationId(cid) /\ Includes(Split(cid), q.auth))

C11_ReadReceiptCorrect ==
  /\ [](\A c \in DOMAIN convs : \A u \in Participants(convs[c]) :
          \A i \in DOMAIN messages :
            (/\ convs[c].parts[u] = Epoch
             /\ messages[i].conversationId = c
             /\ messages[i].senderId # u
             /\ messages[i].deletedAt = <<>>)
            => i \in unreadMessages(convs, messages, c, u))
  /\ [][\A r \in Slots :
          (req[r].kind = "read" /\ req[r].pc = "write" /\ req'[r].persisted)
          => unreadCount(convs', messages', req[r].p.conversationId,
                         req[r].auth) = 0]_vars

\* C12: mark_as_read does not depend on the members cache.  Whatever the
\* cache holds, the handler decides a mark_as_read request (accept or
\* reject, with which err, and the participants it will notify) as it does
\* when the cache lookup misses.
C12_CacheIndependent ==
  [][\A r \in Slots :
       (req[r].pc = "idle" /\ req'[r].kind = "read")
       => req'[r] = handleMarkAsReadStart(Received(req'[r]), <<>>, convs, clock)]_vars

\* C13: the deletion notice.  The group.deleted event of a disbanded group
\* carries the member list captured before the deletion, and when its
\* handler has returned, an out-of-band notice has been emitted to every
\* listed member, without a system message having been persisted.
C13_DeletionNotice ==
  /\ [][\A g \in DOMAIN groups :
          g \notin DOMAIN groups'
          => \E r \in Slots :
               /\ req'[r].kind = "group.deleted"
               /\ req'[r].p.conversationId = g
               /\ req'[r].snap = DOMAIN groups[g].members]_vars
  /\ [](\A r \in Slots :
          (req[r].kind = "group.deleted" /\ req[r].pc = "done")
          => /\ req[r].delivered # {}
             /\ req[r].delivered = req[r].snap
             /\ ~req[r].persisted)

\* C14: an UPDATE never reaches the notification sink.  No send_message
\* with action UPDATE has caused a push, with title and body or silent.
C14_UpdateNoNotification ==
  \A r \in Slots :
    (/\ req[r].kind = "send"
     /\ IncomingMessageSchema(req[r].p).success
     /\ Data(req[r]).action = "UPDATE")
    => req[r].push = {}

\* C15: the action determines the kind of notification.  The pushes of an
\* INSERT are title/body NEW_MESSAGE notifications and the pushes of a
\* DELETE are silent MESSAGE_DELETED notifications; a DELETE causes no
\* title/body notification.
C15_NotificationKindByAction ==
  \A r \in Slots :
    (req[r].kind = "send" /\ IncomingMessageSchema(req[r].p).success)
    => \A n \in req[r].push :
         /\ Data(req[r]).action = "INSERT"
              => (~n.silent /\ n.type = "NEW_MESSAGE")
         /\ Data(req[r]).action = "DELETE"
              => (n.silent /\ n.type = "MESSAGE_DELETED")

\* C16: a failure of notification dispatch does not stop the primary
\* operation.  A send_message that has persisted its envelope has, when the
\* handler returns, broadcast it to the participants, whatever happened to
\* the token lookup or the push.
C16_NotificationFailureHarmless ==
  \A r \in Slots :
    (req[r].kind = "send" /\ req[r].pc = "done" /\ req[r].persisted)
    => (req[r].delivered # {} /\ req[r].delivered = req[r].snap)

\* The two components of a DM conversation id.
Components(conversationId) ==
  {Split(conversationId)[1], Split(conversationId)[2]}

\* The request in slot r is received in this step: a send_message under the
\* sender's own identity, well-formed, to a DM id that names the sender and
\* has no conversation row.
NewDMReceived(r) ==
  /\ req[r].pc = "idle" /\ req'[r].kind = "send"
  /\ IncomingMessageSchema(req'[r].p).success
  /\ req'[r].auth = req'[r].p.senderId
  /\ isDMConversationId(req'[r].p.conversationId)
  /\ req'[r].auth \in Components(req'[r].p.conversationId)
  /\ req'[r].p.conversationId \notin DOMAIN convs

\* C17: a new DM.  A send_message by one of the two users of a DM id without
\* a conversation goes on to create it when both users exist, and otherwise
\* ends with the err "One or both users do not exist" and nothing created.
\* The creation adds the conversation with isGroup = false and exactly the
\* two components as participants, both with lastReadAt = epoch; an INSERT
\* that passes the second validation is then persisted (unless the store
\* fails) and broadcast to both users.
C17_NewDM ==
  [][\A r \in Slots :
       LET cid == req'[r].p.conversationId IN
       /\ NewDMReceived(r)
            => IF Components(cid) \subseteq Users
                 THEN req'[r].pc = "create"
                 ELSE /\ req'[r].pc = "done" /\ req'[r].err = ErrUsers
                      /\ convs' = convs /\ messages' = messages
                      /\ req'[r].delivered = {}
       /\ (req[r].pc = "create" /\ req'[r] # req[r] /\ cid \notin DOMAIN convs)
            => /\ convs' = (cid :> [isGroup |-> FALSE,
                                    parts |-> [u \in Components(cid) |-> Epoch]])
                           @@ convs
               /\ Cardinality(Participants(convs'[cid])) = 2
               /\ CreateMessageSchema(Data(req[r]))
                    => (req'[r].pc = "persist" /\ req'[r].snap = Components(cid))
       /\ (/\ PersistStep(r) /\ Data(req[r]).action = "INSERT"
           /\ req'[r].logged = "none")
            => (Data(req[r]).id \in DOMAIN messages' /\ req'[r].pc = "broadcast")
       /\ (req[r].kind = "send" /\ req[r].pc = "broadcast" /\ req'[r] # req[r])
            => req'[r].delivered = req[r].snap]_vars

\* amy's first message to bob has created their DM, with both at the epoch,
\* has been stored and has been broadcast to the two of them.
C17_Witness ==
  \E r \in Slots :
    /\ req[r].kind = "send" /\ req[r].pc = "notify"
    /\ req[r].auth = amy /\ req[r].p.conversationId = dmAmyBob
    /\ req[r].delivered = {amy, bob}
    /\ dmAmyBob \in DOMAIN convs
    /\ ~convs[dmAmyBob].isGroup
    /\ convs[dmAmyBob].parts = [u \in {amy, bob} |-> Epoch]
    /\ DOMAIN messages = {m1}
    /\ messages[m1].conversationId = dmAmyBob
    /\ messages[m1].senderId = amy

\* The string holds no underscore.
UnderscoreFree(s) == \A i \in 1..Len(s) : s[i] # Underscore

\* The string is of the DM form: exactly one underscore, a non-empty
\* component on each side, the left one strictly below the right one.
DMForm(s) ==
  \E i \in 1..Len(s) :
    /\ s[i] = Underscore
    /\ \A j \in 1..Len(s) : s[j] = Underscore => j = i
    /\ 1 < i /\ i < Len(s)
    /\ StrLess(SubSeq(s, 1, i - 1), SubSeq(s, i + 1, Len(s)))

\* C18: DM id determinism.  For distinct, non-empty, underscore-free user
\* ids a and b, the id computed from (a, b) is the id computed from (b, a),
\* isDMConversationId recognises it, and it splits into exactly a and b;
\* and isDMConversationId accepts a string exactly when it has one
\* underscore, two non-empty components and the first strictly below the
\* second.
C18_DMIdDeterminism ==
  LET a == fnArg.userId1
      b == fnArg.userId2
      proper == /\ a # b /\ Len(a) > 0 /\ Len(b) > 0
                /\ UnderscoreFree(a) /\ UnderscoreFree(b)
  IN /\ (fnOut.pc \in {"resolved", "recognised", "done"} /\ proper)
          => fnOut.id = fnOut.swapped
     /\ (fnOut.pc \in {"recognised", "done"} /\ proper)
          => /\ fnOut.isDM
             /\ Len(fnOut.parts) = 2
             /\ {fnOut.parts[1], fnOut.parts[2]} = {a, b}
     /\ fnOut.pc = "done" => (fnOut.rawIsDM <=> DMForm(fnArg.conversationId))

\* Two clients given "b" and "ab" in either order have made "ab_b", the
\* gateway has recognised it, and has turned down the raw id "b_a".
C18_Witness ==
  /\ fnOut.pc = "done"
  /\ fnArg.userId1 = <<98>> /\ fnArg.userId2 = <<97, 98>>
  /\ fnOut.id = <<97, 98, 95, 98>> /\ fnOut.swapped = fnOut.id
  /\ fnOut.isDM
  /\ fnArg.conversationId = <<98, 95, 97>> /\ ~fnOut.rawIsDM

\* C19: the DM invariant.  In every reachable state each conversation with
\* isGroup = false has an id of the DM form (one underscore, two non-empty
\* components, the first strictly below the second) and its participant set
\* is exactly those two components.
C19_DMConversationInvariant ==
  \A c \in DOMAIN convs :
    ~convs[c].isGroup
      => /\ DMForm(c)
         /\ Participants(convs[c]) = Components(c)
         /\ Cardinality(Participants(convs[c])) = 2

\* The DM of amy and bob exists next to a group created during the run and
\* to the first group after cat was removed from it, and a message to the
\* descending id bob_amy has been turned down.
C19_Witness ==
  /\ dmAmyBob \in DOMAIN convs /\ ~convs[dmAmyBob].isGroup
  /\ Participants(convs[dmAmyBob]) = {amy, bob}
  /\ gconv2 \in DOMAIN convs
  /\ gconv \in DOMAIN convs /\ Participants(convs[gconv]) = {amy}
  /\ dmBobAmy \notin DOMAIN convs
  /\ \E r \in Slots :
       /\ req[r].kind = "send" /\ req[r].pc = "done"
       /\ req[r].p.conversationId = dmBobAmy /\ req[r].err = ErrConvNotFound

\* C20: lastReadAt starts at the epoch.  Every participant row that a step
\* adds (a row of a new conversation, or a new row of an existing one) has
\* lastReadAt equal to the epoch, whichever of the three paths created it:
\* the DM auto-creation, createGroup, addMembers.
C20_LastReadAtEpochAtCreation ==
  [][\A c \in DOMAIN convs' :
       \A u \in Participants(convs'[c]) :
         (c \notin DOMAIN convs \/ u \notin Participants(convs[c]))
           => convs'[c].parts[u] = Epoch]_vars

\* After amy has read the first group (her row now carries the time of the
\* read), bob has just been added to it, a second group has been created
\* and the DM of amy and bob exists: every row but amy's is at the epoch.
C20_Witness ==
  /\ clock # Epoch
  /\ gconv \in DOMAIN convs
  /\ amy \in Participants(convs[gconv]) /\ convs[gconv].parts[amy] = clock
  /\ bob \in Participants(convs[gconv]) /\ convs[gconv].parts[bob] = Epoch
  /\ \E r \in Slots :
       /\ req[r].kind = "group.user.joined" /\ req[r].p.conversationId = gconv
       /\ req[r].p.senderId = bob
  /\ gconv2 \in DOMAIN convs
  /\ \A u \in Participants(convs[gconv2]) : convs[gconv2].parts[u] = Epoch
  /\ dmAmyBob \in DOMAIN convs
  /\ convs[dmAmyBob].parts = [u \in {amy, bob} |-> Epoch]

\* C21: the fully-offline transition.  With one presence operation at a
\* time, removeConnection(u, c) takes c out of u's connection set, nothing
\* else touches the set until it returns, and it returns true exactly when
\* the set without c is empty (false when another connection is left, which
\* then stays in the set).  So of two connections added and then removed,
\* the first removal returns false and the second true.
C21_FullyOfflineExact ==
  [][\A c \in Sockets :
       LET u == SockUser(c) IN
       /\ (sock[c].disc = "srem" /\ sock'[c].disc = "scard")
            => presence'[u] = presence[u] \ {c}
       /\ (sock[c].disc = "scard" /\ sock'[c].disc # "scard")
            => /\ presence' = presence
               /\ sock'[c].ret = "false" <=> presence[u] # {}
               /\ sock'[c].disc = "del" <=> presence[u] = {}
       /\ (sock[c].ret = "none" /\ sock'[c].ret = "true")
            => (presence[u] = {} /\ presence'[u] = {})
       /\ (sock[c].disc \in {"scard", "del"} /\ sock'[c] = sock[c])
            => presence'[u] = presence[u]]_vars

\* amy connected on two sockets and both have gone: the removal of the
\* first returned false, the removal of the second returned true, and her
\* set is empty.
C21_Witness ==
  /\ Quiet
  /\ sock[1].add = "done" /\ sock[2].add = "done"
  /\ sock[1].ret = "false" /\ sock[2].ret = "true"
  /\ presence[amy] = {}

\* The socket went through handleConnection with a session and its
\* transport is still connected.
LiveConnection(c) ==
  /\ sock[c].transport = "open"
  /\ sock[c].conn = "done" /\ sock[c].add = "done"

\* C22: presence is having a live connection.  Whenever no connect or
\* disconnect handling is under way, getStatus(u) is online exactly when u
\* has a connection that was authenticated at connect time and has not
\* disconnected.
C22_OnlineIffLive ==
  Quiet =>
    \A u \in Users :
      getStatus(presence, u) = "online"
        <=> \E c \in Sockets : SockUser(c) = u /\ LiveConnection(c)

\* C23: reads degrade to offline.  A getStatus or getBulkStatus call made
\* while the presence store cannot be reached does not fail and gives
\* offline for every user asked about.
C23_ReadsDegradeToOffline ==
  (fnOut.pc = "done" /\ ~fnArg.up)
    => /\ ~fnOut.threw
       /\ DOMAIN fnOut.status = fnArg.userIds
       /\ \A u \in fnArg.userIds : fnOut.status[u] = "offline"

\* The request in slot r is a typing_start or typing_stop handled in this
\* step.
TypingStep(r) == req[r].pc = "idle" /\ req'[r].kind = "typing"

\* C24: typing goes to the others only.  A typing event of a participant
\* emits user_typing, with the conversation, the sender and the flag sent,
\* to the room of every other participant of the conversation and not to
\* the sender's room; a typing event of a non-participant, or for a
\* conversation that does not exist, emits nothing to anyone but an err to
\* the sender.
C24_TypingToOthersOnly ==
  [][\A r \in Slots :
       TypingStep(r) =>
         LET q == req'[r]
             cid == q.p.conversationId
         IN IF cid \in DOMAIN convs /\ q.auth \in Participants(convs[cid])
              THEN /\ q.event = "user_typing" /\ q.err = "none"
                   /\ q.delivered = Participants(convs[cid]) \ {q.auth}
                   /\ q.auth \notin q.delivered
              ELSE /\ q.event = "none" /\ q.delivered = {}
                   /\ q.err # "none"]_vars

\* bob has stopped typing in his DM with amy: user_typing with isTyping
\* false went to amy's room alone.
C24_Witness ==
  \E r \in Slots :
    /\ req[r].kind = "typing" /\ req[r].pc = "done"
    /\ req[r].auth = bob /\ req[r].p.conversationId = dmAmyBob
    /\ ~req[r].flag
    /\ req[r].event = "user_typing" /\ req[r].delivered = {amy}

\* C25: typing is ephemeral.  Handling a typing_start or typing_stop,
\* accepted or rejected, leaves every conversation, participant, message
\* and group row, the members cache and the presence sets as they were: the
\* signal exists only as the emitted payload.
C25_TypingEphemeral ==
  [][\A r \in Slots :
       TypingStep(r)
         => /\ convs' = convs /\ messages' = messages /\ groups' = groups
            /\ cache' = cache /\ presence' = presence]_vars

\* amy has started typing in the group conversation after a message was
\* stored in her DM with bob: cat was told, and the stored rows are the
\* DM's message and nothing else.
C25_Witness ==
  \E r \in Slots :
    /\ req[r].kind = "typing" /\ req[r].pc = "done" /\ req[r].flag
    /\ req[r].auth = amy /\ req[r].p.conversationId = gconv
    /\ req[r].delivered = {cat}
    /\ DOMAIN messages = {m1} /\ messages[m1].conversationId = dmAmyBob
    /\ DOMAIN convs = {gconv, dmAmyBob}

\* The mark_as_read in slot r, which passed its checks, takes its write
\* step.
ReadWriteStep(r) ==
  req[r].kind = "read" /\ req[r].pc = "write" /\ req'[r] # req[r]

\* C26: the read receipt follows the write.  conversation_read
\* {conversationId, userId, readAt} is emitted only by a mark_as_read whose
\* lastReadAt write has succeeded, with readAt the value written, to the
\* room of every other participant of the conversation and not to the
\* reader's room; a mark_as_read whose write fails emits nothing.
C26_ReadReceiptAfterWrite ==
  [][\A r \in Slots :
       LET cid == req[r].p.conversationId
           userId == req[r].auth
       IN /\ ReadWriteStep(r) =>
               IF req'[r].logged = "none"
                 THEN /\ convs'[cid].parts[userId] = req[r].now
                      /\ req'[r].event = "conversation_read"
                      /\ req'[r].now = req[r].now
                      /\ req'[r].delivered = Participants(convs'[cid]) \ {userId}
                      /\ userId \notin req'[r].delivered
                 ELSE /\ convs' = convs
                      /\ req'[r].event = "none" /\ req'[r].delivered = {}
          /\ (req'[r].event = "conversation_read" /\ req[r].event # "conversation_read")
               => (ReadWriteStep(r) /\ req'[r].persisted)]_vars

\* cat has marked the group conversation as read after the clock moved on:
\* her row carries the time of the read and amy alone got the receipt.
C26_Witness ==
  \E r \in Slots :
    /\ req[r].kind = "read" /\ req[r].pc = "done"
    /\ req[r].auth = cat /\ req[r].p.conversationId = gconv
    /\ req[r].event = "conversation_read" /\ req[r].delivered = {amy}
    /\ req[r].now > 1
    /\ convs[gconv].parts[cat] = req[r].now
    /\ convs[gconv].parts[amy] = Epoch

\* The group event in slot r is handled in this step.
SystemMessageStep(r) ==
  req[r].kind \in SystemMessageEvents /\ req[r].pc = "start" /\ req'[r] # req[r]

\* C27: system messages are first-class messages.  Handling a
\* group.created, group.user.joined, group.user.left or group.member.updated
\* event stores exactly one new message, with contentType SYSTEM and action
\* INSERT, in the event's conversation, and emits it as `message` to every
\* participant of that conversation, the row being stored by then.
C27_SystemMessagePerEvent ==
  [][\A r \in Slots :
       SystemMessageStep(r) =>
         LET cid == req[r].p.conversationId
             new == DOMAIN messages' \ DOMAIN messages
         IN /\ Cardinality(new) = 1
            /\ \A i \in new :
                 /\ messages'[i].contentType = "SYSTEM"
                 /\ messages'[i].action = "INSERT"
                 /\ messages'[i].conversationId = cid
            /\ \A i \in DOMAIN messages : messages'[i] = messages[i]
            /\ req'[r].persisted /\ req'[r].event = "message"
            /\ cid \in DOMAIN convs
            /\ req'[r].delivered = Participants(convs[cid])]_vars

\* C28: the member list is for members.  A getGroupMembers call returns a
\* member list only to a caller who is a member of the group at that time;
\* a caller who is not gets 'Group not found', with or without a cache
\* entry for the group.
C28_MemberListForMembersOnly ==
  [][\A r \in Slots :
       (req[r].pc = "idle" /\ req'[r].kind = "getGroupMembers")
         => LET groupId == req'[r].p.conversationId
                isMember == /\ groupId \in DOMAIN groups
                            /\ req'[r].auth \in DOMAIN groups[groupId].members
            IN IF isMember
                 THEN req'[r].event = "response" /\ req'[r].err = "none"
                 ELSE /\ req'[r].event = "none" /\ req'[r].snap = {}
                      /\ req'[r].err = ErrGroupNotFound]_vars

\* C29: no orphaned group.  Whatever createGroup, addMembers, removeMember,
\* promoteToAdmin and demoteFromAdmin requests have run, overlapping or
\* not, every group that has a member has a member with role ADMIN.
C29_GroupKeepsAnAdmin ==
  \A g \in DOMAIN groups :
    DOMAIN groups[g].members # {}
      => \E u \in DOMAIN groups[g].members : groups[g].members[u] = "ADMIN"

\* The send_message received in this step in slot r comes from a user who
\* is outside the conversation it names: the conversation exists without
\* the user among its participants, or the id is of the DM form and the
\* user is neither of its two components.
OutsideSend(r) ==
  LET cid == req'[r].p.conversationId IN
  /\ req[r].pc = "idle" /\ req'[r].kind = "send"
  /\ \/ cid \in DOMAIN convs /\ req'[r].auth \notin Participants(convs[cid])
     \/ DMForm(cid) /\ req'[r].auth \notin Components(cid)

OutsideRead(r) ==
  /\ req[r].pc = "idle" /\ req'[r].kind = "read"
  /\ req'[r].p.conversationId \in DOMAIN convs
  /\ req'[r].auth \notin Participants(convs[req'[r].p.conversationId])

\* C31: mark_as_read touches the reader's own row only.  A mark_as_read of
\* a user who is not a participant of the conversation ends with an err to
\* that user, no lastReadAt changed and no conversation_read emitted; the
\* write of an accepted mark_as_read changes the lastReadAt of the sender's
\* own row in that conversation and no other row, and no handling of a
\* mark_as_read changes anything else.
C31_ReadTouchesOwnRowOnly ==
  [][\A r \in Slots :
       /\ OutsideRead(r)
            => /\ req'[r].pc = "done" /\ req'[r].err # "none"
               /\ req'[r].event = "none" /\ req'[r].delivered = {}
               /\ convs' = convs
       /\ (req'[r].kind = "read" /\ req'[r] # req[r])
            => /\ messages' = messages /\ groups' = groups
               /\ DOMAIN convs' = DOMAIN convs
               /\ \A c \in DOMAIN convs :
                    /\ convs'[c].isGroup = convs[c].isGroup
                    /\ Participants(convs'[c]) = Participants(convs[c])
                    /\ \A u \in Participants(convs[c]) :
                         convs'[c].parts[u] # convs[c].parts[u]
                           => /\ ReadWriteStep(r)
                              /\ c = req[r].p.conversationId
                              /\ u = req[r].auth]_vars

\* After cat marked the group conversation as read, bob, who is not in it,
\* has tried the same: he got the err, and cat's row is the only one off
\* the epoch.
C31_Witness ==
  \E r \in Slots :
    /\ req[r].kind = "read" /\ req[r].pc = "done"
    /\ req[r].auth = bob /\ req[r].p.conversationId = gconv
    /\ req[r].err = ErrNotConvMember /\ req[r].delivered = {}
    /\ convs[gconv].parts[cat] > Epoch
    /\ convs[gconv].parts[amy] = Epoch
    /\ Participants(convs[gconv]) = {amy, cat}

\* C32: only the sender of a stored message changes it.  Every step that
\* changes a stored message row is the persistence step of an UPDATE or a
\* DELETE whose authenticated sender is the row's stored senderId; so no
\* participant edits or deletes another user's message.
C32_OnlyOwnMessagesChanged ==
  [][\A id \in DOMAIN messages :
       (id \in DOMAIN messages' /\ messages'[id] # messages[id])
         => \E r \in Slots :
              /\ PersistStep(r)
              /\ req[r].p.action \in {"UPDATE", "DELETE"}
              /\ req[r].p.id = id
              /\ messages[id].senderId = req[r].auth]_vars

\* C33: a message is changed and announced inside its own conversation only.
\* Every step that changes a stored message row is the persistence step of
\* an UPDATE or a DELETE whose envelope names the row's stored conversation,
\* sent by a participant of that conversation; and the `message` event of an
\* UPDATE or a DELETE goes to the rooms of the stored row's conversation.
C33_ChangedInOwnConversationOnly ==
  [][/\ \A id \in DOMAIN messages :
          (id \in DOMAIN messages' /\ messages'[id] # messages[id])
            => \E r \in Slots :
                 /\ PersistStep(r)
                 /\ req[r].p.action \in {"UPDATE", "DELETE"}
                 /\ req[r].p.id = id
                 /\ messages[id].conversationId = req[r].p.conversationId
                 /\ messages[id].conversationId \in DOMAIN convs
                 /\ req[r].auth \in Participants(convs[messages[id].conversationId])
     /\ \A r \in Slots :
          (/\ req[r].kind = "send" /\ req[r].pc = "broadcast"
           /\ req'[r].event = "message"
           /\ req[r].p.action \in {"UPDATE", "DELETE"})
            => messages[req[r].p.id].conversationId = req[r].p.conversationId]_vars

\* C34: a soft-deleted message stays deleted and frozen.  From a state where
\* a row has deletedAt set, every step leaves the row in the table with
\* deletedAt set, action DELETE and the content, message and metadata it
\* had; a later INSERT or UPDATE under the same id changes nothing of it.
C34_DeletedStaysFrozen ==
  [][\A id \in DOMAIN messages :
       messages[id].deletedAt # <<>>
         => /\ id \in DOMAIN messages'
            /\ messages'[id].deletedAt # <<>>
            /\ messages'[id].action = "DELETE"
            /\ messages'[id].content = messages[id].content
            /\ messages'[id].message = messages[id].message
            /\ messages'[id].metadata = messages[id].metadata]_vars

\* C35: the broadcast INSERT is the stored one.  When the `message` event of
\* an INSERT is emitted, the row stored under the envelope's id has the
\* envelope's content and message text.
C35_InsertBroadcastMatchesRow ==
  [][\A r \in Slots :
       (/\ req[r].kind = "send" /\ req[r].pc = "broadcast"
        /\ req'[r].event = "message"
        /\ req[r].p.action = "INSERT")
         => /\ req[r].p.id \in DOMAIN messages
            /\ messages[req[r].p.id].content = JsonOrNull(req[r].p.content)
            /\ messages[req[r].p.id].message = req[r].p.message]_vars

\* A getGroupMembers, addMembers or removeMember request is under way in
\* slot r (the two writers run to their cache invalidation in one step).
MembersRequestInFlight(r) ==
  req[r].kind = "getGroupMembers" /\ req[r].pc \in {"find", "set"}

\* C36: the members cache is absent or current.  When no getGroupMembers,
\* addMembers or removeMember request is under way, every entry of the
\* members cache lists exactly the users who are members of its group in
\* the database.
C36_CacheAbsentOrCurrent ==
  (\A r \in Slots : ~MembersRequestInFlight(r))
    => \A g \in DOMAIN cache :
         /\ g \in DOMAIN groups
         /\ cache[g].members = DOMAIN groups[g].members

\* C37: lastReadAt is monotonic.  No step lowers the lastReadAt of a
\* participant row, whatever the order in which the read marks of one user
\* (socket or REST) take their time and write it.
C37_LastReadAtMonotonic ==
  [][\A c \in DOMAIN convs :
       \A u \in Participants(convs[c]) :
         (c \in DOMAIN convs' /\ u \in Participants(convs'[c]))
           => convs'[c].parts[u] >= convs[c].parts[u]]_vars

\* The offline events broadcast for userId.
OfflineEvents(userId) ==
  {e \in emitted : e.userId = userId /\ e.status = "offline"}

\* C38: one offline per transition.  When the two connections of amy, both
\* in her presence set, have disconnected and both removeConnection calls
\* have returned, exactly one of them returned true and exactly one
\* user_status_change offline was broadcast for amy.
C38_OneOfflineForLastTwo ==
  (/\ \A c \in {1, 2} : sock[c].disc = "done" /\ sock[c].ret # "none")
    => /\ Cardinality({c \in {1, 2} : sock[c].ret = "true"}) = 1
       /\ Cardinality(OfflineEvents(amy)) = 1

\* C39: a disconnected connection has left the presence set.  Once
\* handleDisconnect has returned for a socket, the socket's id is not in the
\* presence set of its user.
C39_DisconnectRemovesConnection ==
  \A c \in Sockets :
    sock[c].disc \in {"nosession", "done"} => c \notin presence[SockUser(c)]

\* C40: the second validation never rejects.  Every send_message envelope
\* that IncomingMessageSchema accepts is accepted by CreateMessageSchema as
\* well, and its request never ends with the parse err; so a bare DELETE
\* and an INSERT without `message` go on to the persistence step.
C40_SecondValidationNeverRejects ==
  \A r \in Slots :
    (req[r].kind = "send" /\ IncomingMessageSchema(req[r].p).success)
      => /\ CreateMessageSchema(Data(req[r]))
         /\ req[r].err # ErrParse

=============================================================================
